---- MODULE Spec2Model ----
(***************************************************************************)
(* Model of the unique-vertex cache and the accepted frontier of the       *)
(* avalanche vertex state (package state, uniqueVertex).                   *)
(*                                                                         *)
(* A uniqueVertex handle holds an id and a pointer v to a vertexState      *)
(* object; handles of one id come to share one vertexState through the     *)
(* cache (shallowRefresh).  The serializer holds the in-memory edge, the   *)
(* versioned store holds a write buffer and the committed records.         *)
(***************************************************************************)
EXTENDS Integers, FiniteSets, Sequences, TLC

\* ------------------------------------------------------------------ bounds
\* Number of uniqueVertex objects that exist; with n vertices in use handle h
\* is a handle of vertex ((h - 1) % n) + 1.
NumHandles == 3

\* Number of commits that fail in one run.
MaxFaults == 1

\* The configuration of the throttler: the bytes of the validator
\* allocation, of the at-large allocation, and the at-large bytes one node
\* may use.
VdrAllocSize == 3

AtLargeAllocSize == 3

NodeMaxAtLargeBytes == 2

\* The greatest length of the bytes of a message.
MaxMsgSize == 2

\* The greatest number of messages acquired and not yet released.
MaxAwaiting == 3

\* The counters are unsigned: they wrap around at Word.
Word == 256

\* The weight of connected beacons bootstrapping waits for.
StartupAlpha == 5

\* The greatest number of handlers registered with the dispatcher.
MaxHandlers == 3

\* The number of validators a poll may sample, and the greatest size of the
\* sample.
NumVoters == 3

MaxSample == 3

\* The number of vertices a vote may name.
NumVoteIDs == 2

\* The number of goroutines that call the validator manager.
NumProcs == 2

\* The number of choices of a slush instance.
NumChoices == 3

\* The greatest number of closed channels a VMServer makes.
MaxChannels == 3

\* The number of BlockClient objects.
NumBlocks == 2

\* The number of significant bits of a float64 in the model: a float64 holds 53
\* of the 64 bits of a uint64, the model FloatBits of the bits of a Word.
FloatBits == 3

\* The greatest number of RecordSuccessfulPoll calls after an Initialize.
MaxPolls == 3

\* ------------------------------------------------------- the vertex universe
\* Vertex ids.  The bytes of a vertex fix its parents, its stop flag and its
\* transactions, so they are functions of the id (the id is the hash of the
\* bytes).
Vtx == {1, 2, 3}

Nil == 0

\* The DAGs a run may work on: the number n of vertices in use (ids 1 .. n),
\* parent ids, the stop-vertex flag, and for the one transaction each vertex
\* carries the vertices whose transactions it depends on.
SmallDags ==
  { \* a parent and its child
    [n |-> 2, parents |-> <<{}, {1}, {}>>, stop |-> <<FALSE, FALSE, FALSE>>,
     deps |-> <<{}, {}, {}>>] }

Dags ==
  { \* fork: 2 and 3 are children of 1
    [n |-> 3, parents |-> <<{}, {1}, {1}>>, stop |-> <<FALSE, FALSE, FALSE>>,
     deps |-> <<{}, {}, {}>>],
    \* chain with the stop vertex in the middle
    [n |-> 3, parents |-> <<{}, {1}, {2}>>, stop |-> <<FALSE, TRUE, FALSE>>,
     deps |-> <<{}, {1}, {}>>],
    \* two roots, the stop vertex on top of the first
    [n |-> 3, parents |-> <<{}, {}, {1}>>, stop |-> <<FALSE, FALSE, TRUE>>,
     deps |-> <<{}, {}, {2}>> ] }

\* choices.Status
Unknown == "Unknown"
Processing == "Processing"
Rejected == "Rejected"
Accepted == "Accepted"
StatusValues == {Unknown, Processing, Rejected, Accepted}

\* choices.Status.Fetched: Processing or decided
Fetched(s) == s \in {Processing, Rejected, Accepted}

Decided(s) == s \in {Rejected, Accepted}

Handles == 1 .. NumHandles

\* uniqueVertex.id: the id a handle was created for
HandleOf(n, h) == ((h - 1) % n) + 1

\* Whether the batch write of the commit an operation issues fails.
NoFail == FALSE
CommitFails == TRUE

VARIABLES
  dag,      \* the DAG the run works on (fixed by Init)
  hv,       \* hv[h]: uniqueVertex.v, the vertexState a handle points to, or Nil
  st,       \* st[s]: the vertexState object allocated by handle s
  cache,    \* cache[id]: the handle the unique-vertex cache holds for id, or Nil
  edge,     \* Serializer.edge, the in-memory accepted frontier
  buf,      \* versionDB write buffer: staged records
  db,       \* committed (durable) records
  faults,   \* number of commits that have failed so far
  lastSet,  \* lastSet[id]: the status most recently assigned to a vertexState of id
  txAcc,    \* the vertices whose transaction has status Accepted
  verified, \* the last call of Verify: the vertex and the returned error
  listed,   \* the last call of Whitelist: the vertex and the returned set
  throttler, \* outboundMsgThrottler: the two pools and the two usage maps
  awaiting, \* the messages acquired and not yet released, per node and message
  acquired, \* the last call of Acquire: node, message, result, bytes drawn
  drifted,  \* the validator set has changed while bytes were in use
  slush,    \* nnarySlush: the preference
  initial,  \* the choice of the last Initialize of the slush instance, or Nil
  polls,    \* the choices of the RecordSuccessfulPoll calls since, in order
  tracker,  \* weightTracker: weight and enoughConnectedWeight
  connected, \* the nodes added with AddWeightForNode and not since removed
  reached,  \* the weight of the connected beacons has been startupAlpha or more
  tracked,  \* the last call of the tracker: the node, the tracker before, the error
  chainHandlers, \* EventDispatcher.chainHandlers: chain -> identifier -> handler
  registered, \* registered[c]: the identifiers on chain c, in registration order
  dispatched, \* the last event: chain, kind, handlers invoked, errors, result
              \* (in SpecRegistry: the last call of the registry and its error)
  poll,     \* the no-early-term poll: the bag polled and the votes received
  sampled,  \* the bag of validators the poll was created over
  voted,    \* the validators that have voted in the poll
  dropped,  \* the validators that have been dropped from the poll
  lastVote, \* the last call of Vote: voter, votes, and whether it had voted
  manager,  \* validators.manager: the validator set and maskedVdrs
  lock,     \* manager.lock: the goroutine that holds it, or NoProc
  pc,       \* pc[p]: where goroutine p is in its call of the manager
  call,     \* call[p]: the operation goroutine p is in, and its argument
  seen,     \* what the last read of the manager returned
  committed, \* the manager as the last completed operation left it
  vmServer, \* VMServer: closed, connCloser, and the channels and VM behind it
  rpc,      \* the last call of the VMServer and what it returned
  blocks,   \* blocks[b]: BlockClient.status of block b
  remote,   \* remote[b]: the status of block b in the VM behind the RPC
  decided   \* the last Accept or Reject of a BlockClient and what it returned

\* The variables of the outbound message throttler.
tvars == <<throttler, awaiting, acquired, drifted>>

\* The variables of the vertex store.
uvars ==
  <<dag, hv, st, cache, edge, buf, db, faults, lastSet, txAcc, verified,
    listed>>

\* The variables of the n-ary slush instance.
svars == <<slush, initial, polls>>

\* The variables of the other components of the node.
\* The variables of the weight tracker.
wvars == <<tracker, connected, reached, tracked>>

\* The variables of the event dispatcher.
dvars == <<chainHandlers, registered, dispatched>>

\* The variables of the poll.
pvars == <<poll, sampled, voted, dropped, lastVote>>

\* The variables of the validator manager.
mvars == <<manager, lock, pc, call, seen, committed>>

\* The variables of the VMServer.
rvars == <<vmServer, rpc>>

\* The variables of the BlockClient objects.
bvars == <<blocks, remote, decided>>

\* The variables of the rpcchainvm components.
yvars == <<rvars, bvars>>

xvars == <<svars, wvars, dvars, pvars, mvars, yvars>>

vars == <<uvars, tvars, xvars>>

HandleID(h) == HandleOf(dag.n, h)

\* &vertexState{}
NewVertexState ==
  [latest |-> FALSE, vtx |-> FALSE, status |-> Unknown, parents |-> FALSE]

NoRec == "none"

EmptyRecords ==
  [status |-> [v \in Vtx |-> NoRec], vtx |-> {}, edge |-> <<>>]

\* The in-memory and stored state the operations work on.
World ==
  [dag |-> dag, hv |-> hv, st |-> st, cache |-> cache, edge |-> edge,
   buf |-> buf, db |-> db, lastSet |-> lastSet, txAcc |-> txAcc,
   err |-> "nil", ops |-> <<>>, failed |-> FALSE]

ParentIDs(w, id) == w.dag.parents[id]

StopVertex(w, id) == w.dag.stop[id]

\* ------------------------------------------------------------------ store
\* state.Status: the staged record if there is one, else the committed one,
\* else Unknown.
StoreStatus(w, id) ==
  IF w.buf.status[id] # NoRec THEN w.buf.status[id]
  ELSE IF w.db.status[id] # NoRec THEN w.db.status[id]
  ELSE Unknown

\* state.Vertex: non-nil exactly if the bytes are staged or committed.
StoreVertex(w, id) == id \in (w.buf.vtx \cup w.db.vtx)

\* state.SetVertex: stage the bytes in the write buffer.
SetVertex(w, id) ==
  [w EXCEPT !.buf.vtx = @ \cup {id}, !.ops = Append(@, "SetVertex")]

\* state.SetStatus: stage the status record.
SetStatus(w, id, status) ==
  [w EXCEPT !.buf.status[id] = status, !.ops = Append(@, "SetStatus")]

\* state.SetEdge: stage the edge record.
SetEdge(w, e) ==
  [w EXCEPT !.buf.edge = <<e>>, !.ops = Append(@, "SetEdge")]

\* versionDB.Commit: all staged records become durable in one batch and the
\* buffer is emptied; a failing commit writes nothing and keeps the buffer.
Commit(w, fail) ==
  IF fail THEN [w EXCEPT !.err = "errCommit", !.failed = TRUE]
  ELSE [w EXCEPT
          !.db = [status |-> [v \in Vtx |->
                                IF w.buf.status[v] # NoRec
                                THEN w.buf.status[v] ELSE w.db.status[v]],
                  vtx |-> w.db.vtx \cup w.buf.vtx,
                  edge |-> IF w.buf.edge # <<>> THEN w.buf.edge ELSE w.db.edge],
          !.buf = EmptyRecords,
          !.ops = Append(@, "Commit")]

\* ----------------------------------------------------------------- vertex
\* The height of a vertex: 0 without parents, else one more than the
\* greatest height of a parent.
RECURSIVE Height(_, _)
Height(d, v) ==
  IF d.parents[v] = {} THEN 0
  ELSE 1 + (CHOOSE m \in { Height(d, p) : p \in d.parents[v] } :
              \A p \in d.parents[v] : Height(d, p) <= m)

\* ------------------------------------------------------------------ cache
\* The cache's Deduplicate: the handle held for the id, or h itself, which
\* then enters the cache.
Deduplicate(w, h) ==
  IF w.cache[HandleID(h)] = Nil THEN h ELSE w.cache[HandleID(h)]

DeduplicatePut(w, h) ==
  IF w.cache[HandleID(h)] = Nil THEN [w EXCEPT !.cache[HandleID(h)] = h] ELSE w

\* ----------------------------------------------------------- uniqueVertex
\* Sequencing: the value of x is computed once and handed to the rest F of
\* the function body.
Then(x, F(_)) == CHOOSE r \in { F(y) : y \in {x} } : TRUE

\* if vtx.v == nil { vtx.v = &vertexState{} }
allocState(w, h) ==
  IF w.hv[h] = Nil
  THEN [w EXCEPT !.hv[h] = h, !.st[h] = NewVertexState]
  ELSE w

\* The part of shallowRefresh that follows the cache lookup.
copyLatest(w, h, latest, prevVtx) ==
  Then(IF latest = h
       THEN [w EXCEPT !.st[w.hv[h]].status = StoreStatus(w, HandleID(h)),
                      !.st[w.hv[h]].latest = TRUE]
       ELSE [w EXCEPT !.hv[h] = w.hv[latest]],
       LAMBDA w3 :
         IF ~w3.st[w3.hv[h]].vtx
         THEN [w3 EXCEPT !.st[w3.hv[h]].vtx = prevVtx]
         ELSE w3)

shallowRefresh(w, h) ==
  Then(allocState(w, h),
       LAMBDA w1 :
         IF w1.st[w1.hv[h]].latest THEN w1
         ELSE Then(DeduplicatePut(w1, h),
                   LAMBDA w2 : copyLatest(w2, h, Deduplicate(w1, h),
                                          w2.st[w2.hv[h]].vtx)))

refresh(w, h) ==
  Then(shallowRefresh(w, h),
       LAMBDA w1 :
         IF ~w1.st[w1.hv[h]].vtx /\ Fetched(w1.st[w1.hv[h]].status)
         THEN [w1 EXCEPT !.st[w1.hv[h]].vtx = StoreVertex(w1, HandleID(h))]
         ELSE w1)

\* Evict that also drops the inner vertex.
EvictDropsVertex(w, h) ==
  IF w.hv[h] # Nil
  THEN [w EXCEPT !.st[w.hv[h]].latest = FALSE, !.st[w.hv[h]].parents = FALSE,
                 !.st[w.hv[h]].vtx = FALSE]
  ELSE w

\* Evict that leaves the latest bit set.
EvictKeepsLatest(w, h) ==
  IF w.hv[h] # Nil
  THEN [w EXCEPT !.st[w.hv[h]].parents = FALSE]
  ELSE w

Evict(w, h) ==
  IF w.hv[h] # Nil
  THEN [w EXCEPT !.st[w.hv[h]].latest = FALSE, !.st[w.hv[h]].parents = FALSE]
  ELSE w

persist(w, h, fail) ==
  Then(SetVertex(w, HandleID(h)),
       LAMBDA w1 :
         Then(SetStatus(w1, HandleID(h), w1.st[w1.hv[h]].status),
              LAMBDA w2 : Commit(w2, fail)))

\* The assignment vtx.v.status = status.
AssignStatus(w, h, status) ==
  [w EXCEPT !.st[w.hv[h]].status = status, !.lastSet[HandleID(h)] = status]

setStatus(w, h, status) ==
  Then(shallowRefresh(w, h),
       LAMBDA w1 :
         IF w1.st[w1.hv[h]].status = status THEN w1
         ELSE Then(AssignStatus(w1, h, status),
                   LAMBDA w2 : SetStatus(w2, HandleID(h), status)))

\* uniqueVertex.Parents: fails when the inner vertex is not available.
Parents(w, h) ==
  Then(refresh(w, h),
       LAMBDA w1 :
         IF ~w1.st[w1.hv[h]].vtx THEN [w1 EXCEPT !.err = "errParents"]
         ELSE [w1 EXCEPT !.st[w1.hv[h]].parents =
                           ParentIDs(w1, HandleID(h)) # {}])

\* A loop that removes every member of the edge.
RemoveParentsClearsEdge(e, parentIDs) == {}

\* A loop that leaves the parents on the edge.
RemoveParentsSkipped(e, parentIDs) == e

\* The loop of Accept that removes the parents from the edge.
RemoveParents(e, parentIDs) == e \ parentIDs

\* An Accept that leaves the vertex alone on the edge.
edgeAddAlone(w, id) == [w EXCEPT !.edge = {id}, !.ops = Append(@, "edge")]

\* vtx.serializer.edge.Add(vtx.id)
edgeAdd(w, id) == [w EXCEPT !.edge = @ \cup {id}, !.ops = Append(@, "edge")]

\* vtx.v.parents = nil
clearParents(w, h) == [w EXCEPT !.st[w.hv[h]].parents = FALSE]

\* Accept from the parent loop on.
acceptEdge(w, h, fail) ==
  Then([w EXCEPT !.edge = RemoveParents(@, ParentIDs(w, HandleID(h)))],
       LAMBDA w4 :
         Then(SetEdge(w4, w4.edge),
              LAMBDA w5 :
                Then(clearParents(w5, h), LAMBDA w6 : Commit(w6, fail))))

\* An Accept that commits the status write before it touches the edge.
AcceptCommitsStatusFirst(w, h, fail) ==
  Then(setStatus(w, h, Accepted),
       LAMBDA w0 :
         Then(Commit(w0, FALSE),
              LAMBDA w1 :
                Then(edgeAdd(w1, HandleID(h)),
                     LAMBDA w2 :
                       Then(Parents(w2, h),
                            LAMBDA w3 :
                              IF w3.err # "nil" THEN w3
                              ELSE acceptEdge(w3, h, fail)))))

Accept(w, h, fail) ==
  Then(setStatus(w, h, Accepted),
       LAMBDA w1 :
         Then(edgeAdd(w1, HandleID(h)),
              LAMBDA w2 :
                Then(Parents(w2, h),
                     LAMBDA w3 :
                       IF w3.err # "nil" THEN w3
                       ELSE acceptEdge(w3, h, fail))))

Reject(w, h, fail) ==
  Then(setStatus(w, h, Rejected),
       LAMBDA w1 :
         Then(clearParents(w1, h), LAMBDA w2 : Commit(w2, fail)))

\* A first sight that sets Processing whatever the status is.
persistNewAlways(w, h, fail) ==
  Then(AssignStatus(w, h, Processing), LAMBDA w3 : persist(w3, h, fail))

\* The vertex is newly parsed: set the status and persist it.
persistNew(w, h, fail) ==
  IF Fetched(w.st[w.hv[h]].status) THEN w
  ELSE Then(AssignStatus(w, h, Processing), LAMBDA w3 : persist(w3, h, fail))

\* vtx.v.vtx = innerVertex
setInner(w, h) == [w EXCEPT !.st[w.hv[h]].vtx = TRUE]

\* newUniqueVertex on the bytes of HandleID(h), h being the new object.
newUniqueVertex(w, h, fail) ==
  Then(shallowRefresh(w, h),
       LAMBDA w1 :
         IF w1.st[w1.hv[h]].vtx THEN w1
         ELSE Then(setInner(w1, h), LAMBDA w2 : persistNew(w2, h, fail)))

setVertex(w, h, fail) ==
  Then(shallowRefresh(w, h),
       LAMBDA w1 :
         Then(setInner(w1, h), LAMBDA w2 : persistNew(w2, h, fail)))

\* uniqueVertex.Status
Status(w, h) == refresh(w, h)

StatusValue(w, h) == w.st[w.hv[h]].status

\* ------------------------------------------------------------------ Verify
\* The id of the transaction a vertex carries.
TxID(v) == v + 10

\* A handle that Verify builds for an id (getUniqueVertex, the parents of
\* Parents) is a new object; Status() on it reads the vertexState of the
\* cached handle, or the store when the cache has none.  The new object is
\* taken to leave the cache again before the next operation.
tempRefresh(w, id) ==
  IF w.cache[id] # Nil
       /\ ~w.st[w.hv[w.cache[id]]].vtx
       /\ Fetched(w.st[w.hv[w.cache[id]]].status)
  THEN [w EXCEPT !.st[w.hv[w.cache[id]]].vtx = StoreVertex(w, id)]
  ELSE w

tempStatus(w, id) ==
  IF w.cache[id] # Nil THEN w.st[w.hv[w.cache[id]]].status
  ELSE StoreStatus(w, id)

tempVtx(w, id) ==
  IF w.cache[id] # Nil THEN w.st[w.hv[w.cache[id]]].vtx
  ELSE Fetched(StoreStatus(w, id)) /\ StoreVertex(w, id)

\* cur.Status() for an entry of the queue: the handle Verify was called on,
\* or a new handle of a parent.
curRefresh(w, e) == IF e.h # Nil THEN refresh(w, e.h) ELSE tempRefresh(w, e.id)

curStatus(w, e) == IF e.h # Nil THEN StatusValue(w, e.h) ELSE tempStatus(w, e.id)

curVtx(w, e) == IF e.h # Nil THEN w.st[w.hv[e.h]].vtx ELSE tempVtx(w, e.id)

\* cur.Parents() for an entry of the queue whose inner vertex is known: the
\* parent handles are kept in the vertexState the entry points to.
curParents(w, e) ==
  IF e.h # Nil THEN Parents(w, e.h)
  ELSE IF w.cache[e.id] # Nil
  THEN [w EXCEPT !.st[w.hv[w.cache[e.id]]].parents = ParentIDs(w, e.id) # {}]
  ELSE w

RECURSIVE SetToSeq(_)
SetToSeq(S) ==
  IF S = {} THEN <<>>
  ELSE LET m == CHOOSE x \in S : \A y \in S : x <= y
       IN  <<m>> \o SetToSeq(S \ {m})

\* The loop of Verify over the edge, in the order ord of the map iteration.
RECURSIVE edgeLoop(_, _)
edgeLoop(w, ord) ==
  IF ord = <<>> THEN w
  ELSE Then(tempRefresh(w, Head(ord)),
            LAMBDA w1 :
              IF tempStatus(w1, Head(ord)) = Unknown
              THEN [w1 EXCEPT !.err = "errUnknownVertex"]
              ELSE IF ~tempVtx(w1, Head(ord))
              THEN [w1 EXCEPT !.err = "panic"]
              ELSE IF StopVertex(w1, Head(ord))
              THEN [w1 EXCEPT !.err = "errStopVertexAlreadyAccepted"]
              ELSE edgeLoop(w1, Tail(ord)))

\* All dependencies, whatever their status.
txDependenciesAll(w, id) == { TxID(d) : d \in w.dag.deps[id] }

\* The non-accepted dependencies of the transaction of vertex id.
txDependencies(w, id) ==
  { TxID(d) : d \in { x \in w.dag.deps[id] : x \notin w.txAcc } }

\* The breadth-first walk of Verify.  r holds the world, the queue and the
\* sets visitedVtx, acceptedFrontier, transitivePaths and dependencies.
RECURSIVE walk(_)
walk(r) ==
  IF r.queue = <<>> THEN r
  ELSE
    Then(curRefresh(r.w, Head(r.queue)),
         LAMBDA w1 :
           LET cur == Head(r.queue)
               rest == Tail(r.queue)
           IN  IF curStatus(w1, cur) = Accepted
               THEN walk([r EXCEPT !.w = w1, !.queue = rest,
                                   !.frontier = @ \cup {cur.id}])
               ELSE IF cur.id \in r.visited
               THEN walk([r EXCEPT !.w = w1, !.queue = rest])
               ELSE IF ~curVtx(w1, cur)
               THEN [r EXCEPT !.w = [w1 EXCEPT !.err = "errTxs"]]
               ELSE walk([r EXCEPT
                            !.w = curParents(w1, cur),
                            !.queue = rest \o
                              [i \in 1 .. Cardinality(ParentIDs(w1, cur.id)) |->
                                 [id |-> SetToSeq(ParentIDs(w1, cur.id))[i],
                                  h |-> Nil]],
                            !.visited = @ \cup {cur.id},
                            !.paths = @ \cup {cur.id, TxID(cur.id)},
                            !.deps = @ \cup txDependencies(w1, cur.id)]))

\* A check that only asks the walk to end inside the edge.
checkWalkSubset(r, e) ==
  IF r.w.err # "nil" THEN r.w
  ELSE IF ~(r.frontier \subseteq e) THEN [r.w EXCEPT !.err = "errUnexpectedEdges"]
  ELSE IF Cardinality(r.paths \cup r.deps) # Cardinality(r.paths)
  THEN [r.w EXCEPT !.err = "errUnexpectedDependencyStopVtx"]
  ELSE r.w

\* The last two checks of Verify, on the result of the walk.
checkWalk(r, e) ==
  IF r.w.err # "nil" THEN r.w
  ELSE IF r.frontier # e THEN [r.w EXCEPT !.err = "errUnexpectedEdges"]
  ELSE IF Cardinality(r.paths \cup r.deps) # Cardinality(r.paths)
  THEN [r.w EXCEPT !.err = "errUnexpectedDependencyStopVtx"]
  ELSE r.w

\* A Verify that applies the activation time to every vertex.
VerifyChecksTimeOfAll(w, h, before, ord) ==
  IF before
  THEN [w EXCEPT !.err = "errStopVertexNotAllowedTimestamp"]
  ELSE Then(edgeLoop(w, ord),
            LAMBDA w1 :
              IF w1.err # "nil" THEN w1
              ELSE IF ~StopVertex(w1, HandleID(h)) THEN w1
              ELSE Then(walk([w |-> w1,
                              queue |-> <<[id |-> HandleID(h), h |-> h]>>,
                              visited |-> {}, frontier |-> {},
                              paths |-> {}, deps |-> {}]),
                        LAMBDA r : checkWalk(r, w.edge)))

\* uniqueVertex.Verify on handle h; before: the time is before
\* XChainMigrationTime; ord: the order in which the edge is iterated.
Verify(w, h, before, ord) ==
  IF StopVertex(w, HandleID(h)) /\ before
  THEN [w EXCEPT !.err = "errStopVertexNotAllowedTimestamp"]
  ELSE Then(edgeLoop(w, ord),
            LAMBDA w1 :
              IF w1.err # "nil" THEN w1
              ELSE IF ~StopVertex(w1, HandleID(h)) THEN w1
              ELSE Then(walk([w |-> w1,
                              queue |-> <<[id |-> HandleID(h), h |-> h]>>,
                              visited |-> {}, frontier |-> {},
                              paths |-> {}, deps |-> {}]),
                        LAMBDA r : checkWalk(r, w.edge)))

\* --------------------------------------------------------------- Whitelist
\* The breadth-first walk of Whitelist.  r holds the world, the queue and
\* the sets visitedVtx and whitlist.
RECURSIVE whitelistWalk(_)
whitelistWalk(r) ==
  IF r.queue = <<>> THEN r
  ELSE
    Then(curRefresh(r.w, Head(r.queue)),
         LAMBDA w1 :
           LET cur == Head(r.queue)
               rest == Tail(r.queue)
           IN  IF curStatus(w1, cur) = Accepted
               THEN whitelistWalk([r EXCEPT !.w = w1, !.queue = rest])
               ELSE IF cur.id \in r.visited
               THEN whitelistWalk([r EXCEPT !.w = w1, !.queue = rest])
               ELSE IF ~curVtx(w1, cur)
               THEN [r EXCEPT !.w = [w1 EXCEPT !.err = "errTxs"]]
               ELSE whitelistWalk([r EXCEPT
                            !.w = curParents(w1, cur),
                            !.queue = rest \o
                              [i \in 1 .. Cardinality(ParentIDs(w1, cur.id)) |->
                                 [id |-> SetToSeq(ParentIDs(w1, cur.id))[i],
                                  h |-> Nil]],
                            !.visited = @ \cup {cur.id},
                            !.set = @ \cup {TxID(cur.id), cur.id}]))

\* The result of Whitelist: the world, whether a set is returned, the set.
NoSet(w) == [w |-> w, has |-> FALSE, set |-> {}]

\* A Whitelist that walks from every vertex, with or without the stop flag.
WhitelistOfAll(w, h) ==
  Then(whitelistWalk([w |-> w,
                      queue |-> <<[id |-> HandleID(h), h |-> h]>>,
                      visited |-> {}, set |-> {}]),
       LAMBDA r : IF r.w.err # "nil" THEN NoSet(r.w)
                  ELSE [w |-> r.w, has |-> TRUE, set |-> r.set])

\* uniqueVertex.Whitelist on handle h.
Whitelist(w, h) ==
  IF ~StopVertex(w, HandleID(h)) THEN NoSet(w)
  ELSE Then(whitelistWalk([w |-> w,
                           queue |-> <<[id |-> HandleID(h), h |-> h]>>,
                           visited |-> {}, set |-> {}]),
            LAMBDA r : IF r.w.err # "nil" THEN NoSet(r.w)
                       ELSE [w |-> r.w, has |-> TRUE, set |-> r.set])

\* ------------------------------------------------- outboundMsgThrottler
\* The validator set: the weight of each validator.
Weights == [vdr1 |-> 1, vdr2 |-> 2]

Validators == DOMAIN Weights

\* The nodes messages are sent to: the validators and one other peer.
Nodes == Validators \cup {"peer"}

RECURSIVE SumWeights(_)
SumWeights(S) ==
  IF S = {} THEN 0
  ELSE LET n == CHOOSE x \in S : TRUE
       IN  Weights[n] + SumWeights(S \ {n})

\* validators.Weight()
TotalWeight == SumWeights(Validators)

\* The validator sets the throttler may read: the one it is constructed with,
\* vdr1 removed from it, vdr1 with weight 0, and one with a total weight that
\* a float64 of FloatBits bits does not hold.
ValidatorSets ==
  {Weights, [vdr2 |-> 2], [vdr1 |-> 0, vdr2 |-> 2],
   [vdr1 |-> 2 ^ FloatBits, vdr2 |-> 1]}

\* validators.GetWeight(nodeID): the weight and whether the node is in the set.
SetGetWeight(set, nodeID) ==
  IF nodeID \in DOMAIN set THEN [weight |-> set[nodeID], ok |-> TRUE]
  ELSE [weight |-> 0, ok |-> FALSE]

\* validators.Weight() of a set
RECURSIVE SetWeightOn(_, _)
SetWeightOn(set, S) ==
  IF S = {} THEN 0
  ELSE LET n == CHOOSE x \in S : TRUE
       IN  set[n] + SetWeightOn(set, S \ {n})

SetWeight(set) == SetWeightOn(set, DOMAIN set)

\* The messages: the length of the bytes, and whether the message bypasses
\* throttling.
Msgs == [size : 1 .. MaxMsgSize, bypass : BOOLEAN]

\* The calls Acquire(msg, node).
Calls == [node : Nodes, msg : Msgs]

\* uint64 arithmetic.
Add64(a, b) == (a + b) % Word

Sub64(a, b) == (a - b + Word) % Word

\* The e with 2^e <= x < 2^(e+1), for x >= 1.
RECURSIVE Log2(_)
Log2(x) == IF x < 2 THEN 0 ELSE 1 + Log2(x \div 2)

\* The unit in the last place of a float64 that holds n/d.
Ulp(n, d) ==
  IF Log2(n \div d) >= FloatBits - 1
  THEN 2 ^ (Log2(n \div d) - FloatBits + 1)
  ELSE 1

\* n/d in units of u, rounded to the nearest unit, ties to the even one.
RoundUnits(n, d, u) ==
  Then(n \div (d * u),
       LAMBDA m :
         IF 2 * (n - m * d * u) > d * u THEN m + 1
         ELSE IF 2 * (n - m * d * u) < d * u THEN m
         ELSE IF m % 2 = 0 THEN m ELSE m + 1)

\* float64(x) of an unsigned integer: the nearest float64.
Float64(x) == IF x = 0 THEN 0 ELSE RoundUnits(x, 1, Ulp(x, 1)) * Ulp(x, 1)

\* The product of two float64 that hold integers.
FloatMul(a, b) == Float64(a * b)

\* A power of two that makes every quotient of two words at least
\* 2^FloatBits, so that the rounded quotient is a whole number of units.
FloatScale == 2 ^ (Log2(Word) + 1 + FloatBits)

\* uint64(a / b) of two float64 that hold integers: the quotient rounded to
\* the nearest float64, then truncated.
FloatDivToUint64(a, b) ==
  IF a = 0 THEN 0
  ELSE (RoundUnits(a * FloatScale, b, Ulp(a * FloatScale, b))
          * Ulp(a * FloatScale, b)) \div FloatScale

\* math.Min64 of the values of S
Min64(S) == CHOOSE m \in S : \A x \in S : m <= x

\* m[k] of a Go map: the zero value when the key is absent.
MapGet(m, k) == IF k \in DOMAIN m THEN m[k] ELSE 0

\* m[k] = v
MapPut(m, k, v) ==
  [x \in DOMAIN m \cup {k} |-> IF x = k THEN v ELSE m[x]]

\* delete(m, k)
MapDelete(m, k) == [x \in DOMAIN m \ {k} |-> m[x]]

EmptyMap == [x \in {} |-> 0]

NewSybilOutboundMsgThrottler ==
  [validators |-> Weights,
   maxVdrBytes |-> VdrAllocSize,
   remainingVdrBytes |-> VdrAllocSize,
   remainingAtLargeBytes |-> AtLargeAllocSize,
   nodeMaxAtLargeBytes |-> NodeMaxAtLargeBytes,
   nodeToVdrBytesUsed |-> EmptyMap,
   nodeToAtLargeBytesUsed |-> EmptyMap]

\* The size of the validator allocation of a node, from its weight.
vdrAllocationSize(t, nodeID) ==
  IF SetGetWeight(t.validators, nodeID).ok
       /\ SetGetWeight(t.validators, nodeID).weight # 0
  THEN FloatDivToUint64(
         FloatMul(Float64(t.maxVdrBytes),
                  Float64(SetGetWeight(t.validators, nodeID).weight)),
         Float64(SetWeight(t.validators)))
  ELSE 0

\* A share that leaves out the bytes the node already uses.
vdrBytesAllowedWhole(t, nodeID) == vdrAllocationSize(t, nodeID)

\* The number of bytes the node may still take from its validator allocation.
vdrBytesAllowed(t, nodeID) ==
  IF MapGet(t.nodeToVdrBytesUsed, nodeID) >= vdrAllocationSize(t, nodeID)
  THEN 0
  ELSE Sub64(vdrAllocationSize(t, nodeID), MapGet(t.nodeToVdrBytesUsed, nodeID))

\* The bytes Acquire takes from the at-large allocation.
atLargeBytesUsed(t, msg, nodeID) ==
  Min64({msg.size,
         Sub64(t.nodeMaxAtLargeBytes, MapGet(t.nodeToAtLargeBytesUsed, nodeID)),
         t.remainingAtLargeBytes})

\* The result of Acquire: the throttler, the returned value, and the bytes
\* drawn from the at-large and from the validator allocation.
Acquired(t, ok, atLarge, vdr) ==
  [t |-> t, ok |-> ok, atLarge |-> atLarge, vdr |-> vdr]

\* if atLargeBytesUsed > 0 { ... }
takeAtLarge(t, nodeID, n) ==
  IF n > 0
  THEN [t EXCEPT !.remainingAtLargeBytes = Sub64(@, n),
                 !.nodeToAtLargeBytesUsed =
                    MapPut(@, nodeID, Add64(MapGet(@, nodeID), n))]
  ELSE t

\* if vdrBytesUsed > 0 { ... }
takeVdr(t, nodeID, n) ==
  IF n > 0
  THEN [t EXCEPT !.remainingVdrBytes = Sub64(@, n),
                 !.nodeToVdrBytesUsed =
                    MapPut(@, nodeID, Add64(MapGet(@, nodeID), n))]
  ELSE t

\* The bytes Acquire takes from the validator allocation of the node, the
\* at-large allocation having given atLarge bytes.
vdrBytesUsed(t, msg, nodeID, atLarge) ==
  Min64({t.remainingVdrBytes, Sub64(msg.size, atLarge),
         vdrBytesAllowed(t, nodeID)})

\* An Acquire in which a node may take the whole at-large allocation.
AcquireNoNodeLimit(t, msg, nodeID) ==
  IF msg.bypass THEN Acquired(t, TRUE, 0, 0)
  ELSE Then(Min64({msg.size, t.remainingAtLargeBytes}),
            LAMBDA a :
              Then(vdrBytesUsed(t, msg, nodeID, a),
                   LAMBDA v :
                     IF Sub64(Sub64(msg.size, a), v) # 0
                     THEN Acquired(t, FALSE, 0, 0)
                     ELSE Acquired(takeVdr(takeAtLarge(t, nodeID, a), nodeID, v),
                                   TRUE, a, v)))

\* An Acquire that takes from the validator allocation first.
AcquireVdrFirst(t, msg, nodeID) ==
  IF msg.bypass THEN Acquired(t, TRUE, 0, 0)
  ELSE Then(vdrBytesUsed(t, msg, nodeID, 0),
            LAMBDA v :
              Then(Min64({Sub64(msg.size, v),
                          Sub64(t.nodeMaxAtLargeBytes,
                                MapGet(t.nodeToAtLargeBytesUsed, nodeID)),
                          t.remainingAtLargeBytes}),
                   LAMBDA a :
                     IF Sub64(Sub64(msg.size, v), a) # 0
                     THEN Acquired(t, FALSE, 0, 0)
                     ELSE Acquired(takeVdr(takeAtLarge(t, nodeID, a), nodeID, v),
                                   TRUE, a, v)))

\* An Acquire that keeps the bytes it could take when it returns false.
AcquireKeepsPartial(t, msg, nodeID) ==
  IF msg.bypass THEN Acquired(t, TRUE, 0, 0)
  ELSE Then(atLargeBytesUsed(t, msg, nodeID),
            LAMBDA a :
              Then(vdrBytesUsed(t, msg, nodeID, a),
                   LAMBDA v :
                     Acquired(takeVdr(takeAtLarge(t, nodeID, a), nodeID, v),
                              Sub64(Sub64(msg.size, a), v) = 0, a, v)))

\* An Acquire that throttles every message, whatever it requests.
AcquireThrottlesAll(t, msg, nodeID) ==
  Then(atLargeBytesUsed(t, msg, nodeID),
       LAMBDA a :
         Then(vdrBytesUsed(t, msg, nodeID, a),
              LAMBDA v :
                IF Sub64(Sub64(msg.size, a), v) # 0
                THEN Acquired(t, FALSE, 0, 0)
                ELSE Acquired(takeVdr(takeAtLarge(t, nodeID, a), nodeID, v),
                              TRUE, a, v)))

\* outboundMsgThrottler.Acquire
Acquire(t, msg, nodeID) ==
  IF msg.bypass THEN Acquired(t, TRUE, 0, 0)
  ELSE Then(atLargeBytesUsed(t, msg, nodeID),
            LAMBDA a :
              Then(vdrBytesUsed(t, msg, nodeID, a),
                   LAMBDA v :
                     IF Sub64(Sub64(msg.size, a), v) # 0
                     THEN Acquired(t, FALSE, 0, 0)
                     ELSE Acquired(takeVdr(takeAtLarge(t, nodeID, a), nodeID, v),
                                   TRUE, a, v)))

\* m[k] -= n, the entry kept when it reaches 0.
MapSubKeepsZero(m, k, n) == MapPut(m, k, Sub64(MapGet(m, k), n))

\* m[k] -= n; if m[k] == 0 { delete(m, k) }
MapSub(m, k, n) ==
  IF Sub64(MapGet(m, k), n) = 0 THEN MapDelete(m, k)
  ELSE MapPut(m, k, Sub64(MapGet(m, k), n))

\* The bytes Release gives back to the validator allocation.
vdrBytesToReturn(t, msg, nodeID) ==
  Min64({msg.size, MapGet(t.nodeToVdrBytesUsed, nodeID)})

returnVdr(t, nodeID, n) ==
  [t EXCEPT !.nodeToVdrBytesUsed = MapSub(@, nodeID, n),
            !.remainingVdrBytes = Add64(@, n)]

returnAtLarge(t, nodeID, n) ==
  [t EXCEPT !.remainingAtLargeBytes = Add64(@, n),
            !.nodeToAtLargeBytesUsed = MapSub(@, nodeID, n)]

\* A Release that gives every byte back to the at-large allocation.
ReleaseAllAtLarge(t, msg, nodeID) ==
  IF msg.bypass THEN t ELSE returnAtLarge(t, nodeID, msg.size)

\* outboundMsgThrottler.Release
Release(t, msg, nodeID) ==
  IF msg.bypass THEN t
  ELSE Then(vdrBytesToReturn(t, msg, nodeID),
            LAMBDA n :
              returnAtLarge(returnVdr(t, nodeID, n), nodeID,
                            Sub64(msg.size, n)))

\* No call of Acquire yet.
NoAcquire ==
  [node |-> "none", msg |-> [size |-> 0, bypass |-> FALSE], ok |-> FALSE,
   atLarge |-> 0, vdr |-> 0]

\* ------------------------------------------------------------ nnarySlush
\* ids.Empty, the zero value of ids.ID
Empty == 0

\* The choices: ids of containers.
Choices == 1 .. NumChoices

\* nnarySlush.Initialize
Initialize(sl, choice) == [sl EXCEPT !.preference = choice]

\* nnarySlush.Preference
Preference(sl) == sl.preference

\* A RecordSuccessfulPoll that leaves the preference as it is.
RecordSuccessfulPollKeeps(sl, choice) == sl

\* nnarySlush.RecordSuccessfulPoll
RecordSuccessfulPoll(sl, choice) == [sl EXCEPT !.preference = choice]

\* --------------------------------------------------------- weightTracker
\* The beacons: the weight of each.
Beacons == [b1 |-> 1, b2 |-> 2, b3 |-> 3]

\* The nodes that connect: the beacons and one node that is no beacon.
Peers == DOMAIN Beacons \cup {"other"}

\* beacons.GetWeight
GetWeight(nodeID) ==
  IF nodeID \in DOMAIN Beacons THEN [weight |-> Beacons[nodeID], ok |-> TRUE]
  ELSE [weight |-> 0, ok |-> FALSE]

\* math.Add64: the sum, or an error when it overflows.
SafeAdd64(a, b) ==
  IF a + b >= Word THEN [val |-> 0, err |-> TRUE]
  ELSE [val |-> a + b, err |-> FALSE]

\* A subtraction that wraps around.
SafeSub64Wraps(a, b) == (a - b + Word) % Word

\* math.Sub64, its error dropped: the difference, or 0 when it underflows.
SafeSub64(a, b) == IF a < b THEN 0 ELSE a - b

NewWeightTracker ==
  [startupAlpha |-> StartupAlpha, weight |-> 0,
   enoughConnectedWeight |-> FALSE]

\* weightTracker.AddWeightForNode
AddWeightForNode(wt, nodeID) ==
  IF wt.enoughConnectedWeight THEN wt
  ELSE IF ~GetWeight(nodeID).ok THEN wt
  ELSE IF SafeAdd64(GetWeight(nodeID).weight, wt.weight).err THEN wt
  ELSE Then(SafeAdd64(GetWeight(nodeID).weight, wt.weight).val,
            LAMBDA weight :
              [wt EXCEPT !.weight = weight,
                         !.enoughConnectedWeight = (weight >= wt.startupAlpha)])

\* The error AddWeightForNode returns: that of math.Add64.
AddWeightForNodeErr(wt, nodeID) ==
  /\ ~wt.enoughConnectedWeight
  /\ GetWeight(nodeID).ok
  /\ SafeAdd64(GetWeight(nodeID).weight, wt.weight).err

\* The error RemoveWeightForNode returns: nil on every path.
RemoveWeightForNodeErr(wt, nodeID) == FALSE

\* No call of the tracker yet.
NoTracked ==
  [op |-> "none", nodeID |-> "none", before |-> NewWeightTracker,
   err |-> FALSE]

\* A RemoveWeightForNode that takes the flag back below startupAlpha.
RemoveWeightForNodeUnlatches(wt, nodeID) ==
  IF GetWeight(nodeID).ok
  THEN [wt EXCEPT !.weight = SafeSub64(@, GetWeight(nodeID).weight),
                  !.enoughConnectedWeight =
                     @ /\ SafeSub64(wt.weight, GetWeight(nodeID).weight)
                            >= wt.startupAlpha]
  ELSE wt

\* weightTracker.RemoveWeightForNode
RemoveWeightForNode(wt, nodeID) ==
  IF GetWeight(nodeID).ok
  THEN [wt EXCEPT !.weight = SafeSub64(@, GetWeight(nodeID).weight)]
  ELSE wt

\* weightTracker.EnoughConnectedWeight
EnoughConnectedWeight(wt) == wt.enoughConnectedWeight

\* The sum of the beacon weights of the nodes of S, each counted once.
RECURSIVE BeaconWeight(_)
BeaconWeight(S) ==
  IF S = {} THEN 0
  ELSE LET n == CHOOSE x \in S : TRUE
       IN  GetWeight(n).weight + BeaconWeight(S \ {n})

\* ------------------------------------------------------- EventDispatcher
\* The chains.
Chains == {"X", "C"}

\* The handler functions, by the identifier they are registered under: the
\* interfaces among snow.Acceptor, snow.Rejector and snow.Issuer that each
\* implements.
HandlerFuncs ==
  [indexer |-> {"Accept", "Reject", "Issue"},
   ipcs |-> {"Accept"},
   gossip |-> {"Reject", "Issue"}]

Identifiers == DOMAIN HandlerFuncs

\* triggers.New: no chain has handlers.
New == [c \in {} |-> EmptyMap]

\* The result of a call of the dispatcher: the dispatcher and the error.
Returned(ed, err) == [ed |-> ed, err |-> err]

\* EventDispatcher.RegisterChain
RegisterChain(ed, chainID, identifier, handlerFunc, dieOnError) ==
  IF chainID \in DOMAIN ed /\ identifier \in DOMAIN ed[chainID]
  THEN Returned(ed, TRUE)
  ELSE Returned(
         MapPut(ed, chainID,
                MapPut(IF chainID \in DOMAIN ed THEN ed[chainID] ELSE EmptyMap,
                       identifier,
                       [handlerFunc |-> handlerFunc,
                        dieOnError |-> dieOnError])),
         FALSE)

\* A DeregisterChain that keeps the chain when its last handler goes.
DeregisterChainKeepsChain(ed, chainID, identifier) ==
  IF chainID \notin DOMAIN ed THEN Returned(ed, TRUE)
  ELSE IF identifier \notin DOMAIN ed[chainID] THEN Returned(ed, TRUE)
  ELSE Returned(MapPut(ed, chainID, MapDelete(ed[chainID], identifier)), FALSE)

\* EventDispatcher.DeregisterChain
DeregisterChain(ed, chainID, identifier) ==
  IF chainID \notin DOMAIN ed THEN Returned(ed, TRUE)
  ELSE IF identifier \notin DOMAIN ed[chainID] THEN Returned(ed, TRUE)
  ELSE IF Cardinality(DOMAIN ed[chainID]) = 1
       THEN Returned(MapDelete(ed, chainID), FALSE)
       ELSE Returned(MapPut(ed, chainID, MapDelete(ed[chainID], identifier)),
                     FALSE)

\* The result of an event: the handlers invoked, in order, and the error
\* returned.
Dispatched(invoked, err) == [invoked |-> invoked, err |-> err]

\* for id, handler := range events { ... } of Accept: ord is the order in
\* which the range visits the map, failing the handlers whose Accept
\* returns an error.
RECURSIVE acceptRange(_, _, _, _)
acceptRange(events, ord, failing, invoked) ==
  IF ord = <<>> THEN Dispatched(invoked, FALSE)
  ELSE IF "Accept" \notin events[Head(ord)].handlerFunc
       THEN acceptRange(events, Tail(ord), failing, invoked)
       ELSE IF Head(ord) \in failing /\ events[Head(ord)].dieOnError
            THEN Dispatched(Append(invoked, Head(ord)), TRUE)
            ELSE acceptRange(events, Tail(ord), failing,
                             Append(invoked, Head(ord)))

\* An Accept that returns the error of any handler.
DispatchAcceptDiesAlways(ed, chainID, ord, failing) ==
  IF chainID \notin DOMAIN ed THEN Dispatched(<<>>, FALSE)
  ELSE acceptRange([i \in DOMAIN ed[chainID] |->
                      [ed[chainID][i] EXCEPT !.dieOnError = TRUE]],
                   ord, failing, <<>>)

\* An Accept that leaves the range at the first handler that returns an error,
\* and returns the error only if that handler has dieOnError.
DispatchAcceptStopsOnError(ed, chainID, ord, failing) ==
  IF chainID \notin DOMAIN ed THEN Dispatched(<<>>, FALSE)
  ELSE Then(acceptRange([i \in DOMAIN ed[chainID] |->
                           [ed[chainID][i] EXCEPT !.dieOnError = TRUE]],
                        ord, failing, <<>>),
            LAMBDA r :
              Dispatched(r.invoked,
                         r.err /\ ed[chainID][r.invoked[Len(r.invoked)]].dieOnError))

\* EventDispatcher.Accept
DispatchAccept(ed, chainID, ord, failing) ==
  IF chainID \notin DOMAIN ed THEN Dispatched(<<>>, FALSE)
  ELSE acceptRange(ed[chainID], ord, failing, <<>>)

\* for id, handler := range events { ... } of Reject and of Issue
\* The error of a handler of failing is logged, and the range goes on.
RECURSIVE notifyRange(_, _, _, _, _)
notifyRange(events, ord, kind, failing, invoked) ==
  IF ord = <<>> THEN Dispatched(invoked, FALSE)
  ELSE IF kind \notin events[Head(ord)].handlerFunc
       THEN notifyRange(events, Tail(ord), kind, failing, invoked)
       ELSE notifyRange(events, Tail(ord), kind, failing,
                        Append(invoked, Head(ord)))

\* EventDispatcher.Reject
DispatchReject(ed, chainID, ord, failing) ==
  IF chainID \notin DOMAIN ed THEN Dispatched(<<>>, FALSE)
  ELSE notifyRange(ed[chainID], ord, "Reject", failing, <<>>)

\* EventDispatcher.Issue
DispatchIssue(ed, chainID, ord, failing) ==
  IF chainID \notin DOMAIN ed THEN Dispatched(<<>>, FALSE)
  ELSE notifyRange(ed[chainID], ord, "Issue", failing, <<>>)

\* The identifiers registered on a chain.
Events(ed, chainID) ==
  IF chainID \in DOMAIN ed THEN DOMAIN ed[chainID] ELSE {}

\* No event yet.
NoEvent ==
  [chain |-> "none", kind |-> "none", failed |-> {}, invoked |-> <<>>,
   err |-> FALSE]

\* The handlers an event invoked that returned an error.
Failed(invoked, failing) ==
  { invoked[i] : i \in 1 .. Len(invoked) } \cap failing

\* ------------------------------------------------------ no-early-term poll
\* The validators a poll may sample.
Voters == 1 .. NumVoters

\* The vertices a vote may name.
VoteIDs == 1 .. NumVoteIDs

\* ids.ShortBag: the number of times each validator is in the bag.
EmptyBag == [v \in Voters |-> 0]

\* ShortBag.Len
RECURSIVE BagLenOn(_, _)
BagLenOn(b, S) ==
  IF S = {} THEN 0
  ELSE LET v == CHOOSE x \in S : TRUE
       IN  b[v] + BagLenOn(b, S \ {v})

BagLen(b) == BagLenOn(b, Voters)

\* ShortBag.Remove
BagRemove(b, vdr) == [b EXCEPT ![vdr] = 0]

\* factory.New(validators): nothing received, every validator polled.
\* The votes are an ids.UniqueBag: for each vertex the set of the vote
\* indices that named it.
NewNoEarlyTermPoll(validators) ==
  [polled |-> validators, votes |-> [id \in VoteIDs |-> {}]]

\* UniqueBag.Add(index, ids...) for the indices from .. from + count - 1
UniqueBagAdd(votes, from, count, ids) ==
  [id \in VoteIDs |->
     IF id \in ids THEN votes[id] \cup (from .. from + count - 1)
     ELSE votes[id]]

\* A Vote that leaves the voter in the bag polled.
VoteKeepsPolled(p, vdr, votes) ==
  [p EXCEPT !.votes = UniqueBagAdd(@, BagLen(BagRemove(p.polled, vdr)),
                                   p.polled[vdr], votes)]

\* poll.Vote: the voter leaves the bag polled, and its votes are recorded
\* once for each time the bag held it.
Vote(p, vdr, votes) ==
  [p EXCEPT !.polled = BagRemove(@, vdr),
            !.votes = UniqueBagAdd(@, BagLen(BagRemove(p.polled, vdr)),
                                   p.polled[vdr], votes)]

\* poll.Drop
Drop(p, vdr) == [p EXCEPT !.polled = BagRemove(@, vdr)]

\* A Finished that is true as soon as a vote has been received.
FinishedOnVote(p) ==
  BagLen(p.polled) = 0 \/ \E id \in VoteIDs : p.votes[id] # {}

\* poll.Finished
Finished(p) == BagLen(p.polled) = 0

\* poll.Result
Result(p) == p.votes

\* No call of Vote yet.
NoVote == [vdr |-> Nil, votes |-> {}, again |-> FALSE]

\* ---------------------------------------------------- validators.manager
\* The goroutines that call the manager.
Procs == 1 .. NumProcs

NoProc == 0

\* The validator set of the network: the weight of each validator, and the
\* validators hidden from sampling.  Every call of the set is atomic.
loadCustomValidators == [vdrs |-> Weights, masked |-> {}]

\* Set.MaskValidator
SetMaskValidator(set, vdrID) == [set EXCEPT !.masked = @ \cup {vdrID}]

\* Set.RevealValidator
SetRevealValidator(set, vdrID) == [set EXCEPT !.masked = @ \ {vdrID}]

\* Set.List: the validators and their weights; masking keeps the weight.
SetList(set) == set.vdrs

\* Set.Contains
SetContains(set, vdrID) == vdrID \in DOMAIN set.vdrs

\* Set.Len
SetLen(set) == Cardinality(DOMAIN set.vdrs)

\* NewManager
NewManager == [validators |-> loadCustomValidators, maskedVdrs |-> {}]

\* The operations that take manager.lock, and the one that does not.
Readers == {"GetValidators", "Contains", "String"}

Mutators == {"MaskValidator", "RevealValidator"}

NoCall == [op |-> "none"]

\* The calls that take the lock: Contains, MaskValidator and RevealValidator
\* have a node as argument.
ManagerCalls ==
  [op : {"Contains"} \cup Mutators, vdrID : Nodes]
    \cup [op : Readers \ {"Contains"}, vdrID : {"none"}]

\* A lock that never makes a goroutine wait.
CanLockAlways(l) == TRUE

\* m.lock.Lock() returns when no goroutine holds the lock.
CanLock(l) == l = NoProc

\* manager.GetValidators
GetValidators(m) ==
  IF SetLen(m.validators) = 0
  THEN [op |-> "GetValidators", set |-> NoCall, ok |-> FALSE]
  ELSE [op |-> "GetValidators", set |-> m.validators, ok |-> TRUE]

\* manager.Contains
Contains(m, vdrID) ==
  [op |-> "Contains", vdrID |-> vdrID,
   contains |-> SetContains(m.validators, vdrID)]

\* manager.String: the size and the validators of the set
String(m) ==
  [op |-> "String", size |-> SetLen(m.validators),
   vdrs |-> SetList(m.validators)]

\* What a reader returns.
Read(m, c) ==
  IF c.op = "GetValidators" THEN GetValidators(m)
  ELSE IF c.op = "Contains" THEN Contains(m, c.vdrID)
  ELSE String(m)

\* manager.Mutate reads the list of the set, without the lock, and builds a
\* manager over a copy of it; mid says whether a mutation was under way.
Mutate(m, mid) ==
  [op |-> "Mutate", mid |-> mid,
   manager |-> [validators |-> [vdrs |-> SetList(m.validators),
                                masked |-> {}],
                maskedVdrs |-> {}]]

\* MaskValidator and RevealValidator up to the change of maskedVdrs: whether
\* the call goes on to the set, and the manager.
maskedVdrsStep(m, c) ==
  IF c.op = "MaskValidator"
  THEN IF c.vdrID \in m.maskedVdrs THEN [on |-> FALSE, m |-> m]
       ELSE [on |-> TRUE, m |-> [m EXCEPT !.maskedVdrs = @ \cup {c.vdrID}]]
  ELSE IF c.vdrID \notin m.maskedVdrs THEN [on |-> FALSE, m |-> m]
       ELSE [on |-> TRUE, m |-> [m EXCEPT !.maskedVdrs = @ \ {c.vdrID}]]

\* What a call of the set may do: succeed, return an error having changed
\* nothing, or return an error having changed the set.
SetFaults == {"nil", "errBefore", "errAfter"}

\* m.validators.MaskValidator(vdrID) and m.validators.RevealValidator(vdrID)
validatorsStep(m, c, fault) ==
  IF fault = "errBefore" THEN m
  ELSE IF c.op = "MaskValidator"
       THEN [m EXCEPT !.validators = SetMaskValidator(@, c.vdrID)]
       ELSE [m EXCEPT !.validators = SetRevealValidator(@, c.vdrID)]

\* -------------------------------------------------------------- VMServer
\* NewServer: closed is nil and no connection is held.  chans[k] is the number
\* of times close() has been called on the k-th channel made; a second close
\* of a channel is a run-time panic.
NewServer ==
  [closed |-> Nil, connCloser |-> 0, chans |-> <<>>, vmShutdowns |-> 0,
   stopped |-> FALSE, panicked |-> FALSE]

\* Where Initialize fails: in the ids of the request, at the dial of a
\* database or of the init server, in vm.Initialize, in vm.LastAccepted or in
\* vm.GetBlock; or nowhere.
InitFaults ==
  {"nil", "ids", "dialDB", "dialInit", "vmInitialize", "lastAccepted",
   "getBlock"}

\* What a call of the VMServer returns: the server and the error.
Responded(s, err) == [s |-> s, err |-> err]

\* close(vm.closed)
closeClosed(s) ==
  [s EXCEPT !.chans[s.closed] = @ + 1, !.panicked = s.chans[s.closed] >= 1]

\* vm.connCloser.Close()
connCloserClose(s) == [s EXCEPT !.connCloser = 0]

\* Initialize up to the start of the goroutine: the connections are added
\* and vm.closed = make(chan struct{}).
makeClosed(s) ==
  [s EXCEPT !.connCloser = @ + 2, !.chans = Append(@, 0),
            !.closed = Len(s.chans) + 1]

\* VMServer.Initialize
ServerInitialize(s, fault) ==
  IF fault = "ids" THEN Responded(s, TRUE)
  ELSE IF fault \in {"dialDB", "dialInit"}
       THEN Responded(connCloserClose(s), TRUE)
  ELSE IF fault = "vmInitialize"
       THEN Responded(closeClosed(connCloserClose(makeClosed(s))), TRUE)
  ELSE IF fault \in {"lastAccepted", "getBlock"}
       THEN Responded(
              closeClosed(connCloserClose(
                [makeClosed(s) EXCEPT !.vmShutdowns = @ + 1])),
              TRUE)
  ELSE Responded(makeClosed(s), FALSE)

\* VMServer.Shutdown; vmErr is the error of vm.Shutdown.  A panic in
\* close(vm.closed) ends the call there.
ServerShutdown(s, vmErr) ==
  IF s.closed = Nil THEN Responded(s, FALSE)
  ELSE Then(closeClosed([s EXCEPT !.vmShutdowns = @ + 1]),
            LAMBDA s1 :
              IF s1.panicked THEN Responded(s1, TRUE)
              ELSE Responded(connCloserClose([s1 EXCEPT !.stopped = TRUE]),
                             vmErr))

\* No call yet.
NoRPC == [op |-> "none", err |-> FALSE, nilBefore |-> TRUE, vmCalled |-> FALSE]

\* ----------------------------------------------------------- BlockClient
Blocks == 1 .. NumBlocks

\* What the RPC of a decision does: succeed, fail before the VM has decided
\* the block, or fail after it has.
RPCFaults == {"nil", "errBefore", "errAfter"}

\* The result of BlockAccept or BlockReject in the VM behind the RPC.
BlockDecided(r, b, status, fault) ==
  IF fault = "errBefore" THEN r ELSE [r EXCEPT ![b] = status]

\* BlockClient.Accept: the status of the blocks and the error.
BlockAccept(bs, b, fault) ==
  [blocks |-> [bs EXCEPT ![b] = Accepted], err |-> fault # "nil"]

\* BlockClient.Reject
BlockReject(bs, b, fault) ==
  [blocks |-> [bs EXCEPT ![b] = Rejected], err |-> fault # "nil"]

\* BlockClient.Status
BlockStatus(bs, b) == bs[b]

\* No decision yet.
NoDecision == [op |-> "none", blk |-> Nil, before |-> Unknown, err |-> FALSE]

\* ------------------------------------------------------------------ actions
\* vertexState objects no handle points to are unreachable; they are kept in
\* their initial form.
Collect(w) ==
  [s \in Handles |->
     IF \E h \in Handles : w.hv[h] = s THEN w.st[s] ELSE NewVertexState]

Install(w) ==
  /\ hv' = w.hv
  /\ st' = Collect(w)
  /\ cache' = w.cache
  /\ edge' = w.edge
  /\ buf' = w.buf
  /\ db' = w.db
  /\ lastSet' = w.lastSet
  /\ faults' = IF w.failed THEN faults + 1 ELSE faults
  /\ faults' <= MaxFaults
  /\ UNCHANGED <<dag, txAcc, tvars, xvars>>

\* The state after construction, on one of the DAGs of D.
InitOn(D) ==
  /\ dag \in D
  /\ hv = [h \in Handles |-> Nil]
  /\ st = [h \in Handles |-> NewVertexState]
  /\ cache = [v \in Vtx |-> Nil]
  /\ edge = {}
  /\ buf = EmptyRecords
  /\ db = EmptyRecords
  /\ faults = 0
  /\ lastSet = [v \in Vtx |-> Unknown]
  /\ txAcc = {}
  /\ verified = [id |-> Nil, err |-> "nil"]
  /\ listed = [id |-> Nil, has |-> FALSE, set |-> {}]
  /\ throttler = NewSybilOutboundMsgThrottler
  /\ awaiting = [c \in Calls |-> 0]
  /\ acquired = NoAcquire
  /\ drifted = FALSE
  /\ slush = [preference |-> Empty]
  /\ initial = Nil
  /\ polls = <<>>
  /\ tracker = NewWeightTracker
  /\ connected = {}
  /\ reached = (StartupAlpha = 0)
  /\ tracked = NoTracked
  /\ chainHandlers = New
  /\ registered = [c \in Chains |-> <<>>]
  /\ dispatched = NoEvent
  /\ poll = NewNoEarlyTermPoll(EmptyBag)
  /\ sampled = EmptyBag
  /\ voted = {}
  /\ dropped = {}
  /\ lastVote = NoVote
  /\ manager = NewManager
  /\ lock = NoProc
  /\ pc = [p \in Procs |-> "idle"]
  /\ call = [p \in Procs |-> NoCall]
  /\ seen = NoCall
  /\ committed = NewManager
  /\ vmServer = NewServer
  /\ rpc = NoRPC
  /\ blocks = [b \in Blocks |-> Processing]
  /\ remote = [b \in Blocks |-> Processing]
  /\ decided = NoDecision

Init == InitOn(SmallDags)

\* newUniqueVertex is called with bytes and builds a new uniqueVertex object.
NewUniqueVertexOn(F) ==
  \E h \in Handles, fail \in F :
    /\ hv[h] = Nil
    /\ \E w \in {newUniqueVertex(World, h, fail)} : Install(w) /\ UNCHANGED <<verified, listed>>

\* setVertex is called on the new uniqueVertex object of a built vertex.
SetVertexStep ==
  \E h \in Handles, fail \in BOOLEAN :
    /\ hv[h] = Nil
    /\ \E w \in {setVertex(World, h, fail)} : Install(w) /\ UNCHANGED <<verified, listed>>

AcceptOn(F) ==
  \E h \in Handles, fail \in F :
    \E w \in {Accept(World, h, fail)} : Install(w) /\ UNCHANGED <<verified, listed>>

RejectOn(F) ==
  \E h \in Handles, fail \in F :
    \E w \in {Reject(World, h, fail)} : Install(w) /\ UNCHANGED <<verified, listed>>

NewUniqueVertexStep == NewUniqueVertexOn(BOOLEAN)

AcceptStep == AcceptOn(BOOLEAN)

RejectStep == RejectOn(BOOLEAN)

StatusStep ==
  \E h \in Handles :
    \E w \in {Status(World, h)} : Install(w) /\ UNCHANGED <<verified, listed>>

\* The cache drops the entry of an id to make room for another key and calls
\* Evict on the handle it held.
EvictStep ==
  \E id \in Vtx :
    /\ cache[id] # Nil
    /\ \E w \in {Evict(World, cache[id])} :
         Install([w EXCEPT !.cache[id] = Nil]) /\ UNCHANGED <<verified, listed>>

Next ==
  \/ NewUniqueVertexStep
  \/ SetVertexStep
  \/ AcceptStep
  \/ RejectStep
  \/ StatusStep
  \/ EvictStep

Spec == Init /\ [][Next]_vars

RECURSIVE Perms(_)
Perms(S) ==
  IF S = {} THEN {<<>>}
  ELSE UNION { { <<x>> \o p : p \in Perms(S \ {x}) } : x \in S }

\* Verify is called on a handle that holds a parsed vertex.
VerifyStep ==
  \E h \in Handles, before \in BOOLEAN, ord \in Perms(edge) :
    /\ hv[h] # Nil
    /\ st[hv[h]].vtx
    /\ \E w \in {Verify(World, h, before, ord)} :
         /\ Install(w)
         /\ verified' = [id |-> HandleID(h), err |-> w.err]
         /\ UNCHANGED listed

\* The transaction layer accepts the transaction of a vertex that other
\* transactions depend on.
AcceptTxStep ==
  \E v \in UNION { dag.deps[u] : u \in 1 .. dag.n } :
    /\ v \notin txAcc
    /\ txAcc' = txAcc \cup {v}
    /\ UNCHANGED <<dag, hv, st, cache, edge, buf, db, faults, lastSet, verified,
                   listed, tvars, xvars>>

\* The operations of a run in which no commit fails and nothing is evicted.
NewUniqueVertexOk == NewUniqueVertexOn({NoFail})

AcceptOk == AcceptOn({NoFail})

RejectOk == RejectOn({NoFail})

NextVerify ==
  \/ NewUniqueVertexOk
  \/ AcceptOk
  \/ RejectOk
  \/ VerifyStep
  \/ EvictStep
  \/ AcceptTxStep

InitVerify == InitOn(Dags)

SpecVerify == InitVerify /\ [][NextVerify]_vars

\* Whitelist is called on a handle that holds a parsed vertex.
WhitelistStep ==
  \E h \in Handles :
    /\ hv[h] # Nil
    /\ st[hv[h]].vtx
    /\ \E r \in {Whitelist(World, h)} :
         /\ Install(r.w)
         /\ listed' = [id |-> HandleID(h), has |-> r.has, set |-> r.set]
         /\ UNCHANGED verified

NextWhitelist ==
  \/ NewUniqueVertexOk
  \/ AcceptOk
  \/ RejectOk
  \/ WhitelistStep
  \/ EvictStep
  \/ AcceptTxStep

SpecWhitelist == InitVerify /\ [][NextWhitelist]_vars

\* ------------------------------------------------------ throttler actions
RECURSIVE SumAwaiting(_)
SumAwaiting(S) ==
  IF S = {} THEN 0
  ELSE LET c == CHOOSE x \in S : TRUE
       IN  awaiting[c] + SumAwaiting(S \ {c})

\* The number of messages acquired and not yet released.
AwaitingRelease == SumAwaiting(Calls)

\* The network asks to queue a message for a node.
AcquireStep ==
  \E c \in Calls :
    \E r \in {Acquire(throttler, c.msg, c.node)} :
      /\ r.ok => AwaitingRelease < MaxAwaiting
      /\ throttler' = r.t
      /\ awaiting' = IF r.ok THEN [awaiting EXCEPT ![c] = @ + 1] ELSE awaiting
      /\ acquired' = [node |-> c.node, msg |-> c.msg, ok |-> r.ok,
                      atLarge |-> r.atLarge, vdr |-> r.vdr]
      /\ UNCHANGED <<drifted, uvars, xvars>>

\* A queued message has been sent, or the network gave up on it.
ReleaseStep ==
  \E c \in Calls :
    /\ awaiting[c] > 0
    /\ throttler' = Release(throttler, c.msg, c.node)
    /\ awaiting' = [awaiting EXCEPT ![c] = @ - 1]
    /\ UNCHANGED <<acquired, drifted, uvars, xvars>>

NextThrottle ==
  \/ AcquireStep
  \/ ReleaseStep

InitThrottle == InitOn(SmallDags)

SpecThrottle == InitThrottle /\ [][NextThrottle]_vars

\* ------------------------------------------------ validator set actions
\* The validator set the throttler reads changes: validators join or leave it,
\* or their weights change. A set that changes while no byte is in use leaves
\* the throttler as one constructed with the new set.
SetWeightsStep ==
  \E set \in ValidatorSets \ {throttler.validators} :
    /\ throttler' = [throttler EXCEPT !.validators = set]
    /\ drifted' = (drifted \/ throttler.nodeToVdrBytesUsed # EmptyMap
                           \/ throttler.nodeToAtLargeBytesUsed # EmptyMap)
    /\ UNCHANGED <<awaiting, acquired, uvars, xvars>>

NextShare ==
  \/ AcquireStep
  \/ ReleaseStep
  \/ SetWeightsStep

InitShare == InitOn(SmallDags)

SpecShare == InitShare /\ [][NextShare]_vars

\* --------------------------------------------------- nnarySlush actions
InitializeStep ==
  \E c \in Choices :
    /\ slush' = Initialize(slush, c)
    /\ initial' = c
    /\ polls' = <<>>
    /\ UNCHANGED <<uvars, tvars, yvars, wvars, dvars, pvars, mvars>>

RecordSuccessfulPollStep ==
  \E c \in Choices :
    /\ initial # Nil
    /\ Len(polls) < MaxPolls
    /\ slush' = RecordSuccessfulPoll(slush, c)
    /\ polls' = Append(polls, c)
    /\ UNCHANGED <<initial, uvars, tvars, yvars, wvars, dvars, pvars, mvars>>

NextSlush ==
  \/ InitializeStep
  \/ RecordSuccessfulPollStep

InitSlush == InitOn(SmallDags)

SpecSlush == InitSlush /\ [][NextSlush]_vars

\* ------------------------------------------------ weightTracker actions
\* A node connects.
AddWeightForNodeStep ==
  \E n \in Peers :
    /\ tracker' = AddWeightForNode(tracker, n)
    /\ connected' = connected \cup {n}
    /\ reached' = (reached \/ BeaconWeight(connected \cup {n})
                                >= tracker.startupAlpha)
    /\ tracked' = [op |-> "AddWeightForNode", nodeID |-> n, before |-> tracker,
                   err |-> AddWeightForNodeErr(tracker, n)]
    /\ UNCHANGED <<uvars, tvars, yvars, svars, dvars, pvars, mvars>>

\* A node disconnects.
RemoveWeightForNodeStep ==
  \E n \in Peers :
    /\ tracker' = RemoveWeightForNode(tracker, n)
    /\ connected' = connected \ {n}
    /\ tracked' = [op |-> "RemoveWeightForNode", nodeID |-> n,
                   before |-> tracker,
                   err |-> RemoveWeightForNodeErr(tracker, n)]
    /\ UNCHANGED <<reached, uvars, tvars, yvars, svars, dvars, pvars, mvars>>

NextTracker ==
  \/ AddWeightForNodeStep
  \/ RemoveWeightForNodeStep

InitTracker == InitOn(SmallDags)

SpecTracker == InitTracker /\ [][NextTracker]_vars

\* The node makes a tracker that waits for the greatest weight a word holds.
NewWeightTrackerStep ==
  /\ tracker' = [NewWeightTracker EXCEPT !.startupAlpha = Word - 1]
  /\ connected' = {}
  /\ reached' = FALSE
  /\ tracked' = NoTracked
  /\ UNCHANGED <<uvars, tvars, yvars, svars, dvars, pvars, mvars>>

NextArith ==
  \/ NewWeightTrackerStep
  \/ AddWeightForNodeStep
  \/ RemoveWeightForNodeStep

InitArith == InitOn(SmallDags)

SpecArith == InitArith /\ [][NextArith]_vars

\* ---------------------------------------------- EventDispatcher actions
\* The number of handlers registered.
RECURSIVE NumRegistered(_)
NumRegistered(S) ==
  IF S = {} THEN 0
  ELSE LET c == CHOOSE x \in S : TRUE
       IN  Len(registered[c]) + NumRegistered(S \ {c})

\* s without its element x
Without(s, x) == SelectSeq(s, LAMBDA y : y # x)

\* The record of a call of RegisterChain or DeregisterChain.
RegistryCall(kind, c, id, err) ==
  [chain |-> c, kind |-> kind, failed |-> {}, invoked |-> <<id>>, err |-> err]

\* RegisterChain is called; with rec the call and its error are recorded.
RegisterChainOn(rec) ==
  \E c \in Chains, id \in Identifiers, die \in BOOLEAN :
    \E r \in {RegisterChain(chainHandlers, c, id, HandlerFuncs[id], die)} :
      /\ ~r.err => NumRegistered(Chains) < MaxHandlers
      /\ chainHandlers' = r.ed
      /\ registered' = IF r.err THEN registered
                       ELSE [registered EXCEPT ![c] = Append(@, id)]
      /\ dispatched' = IF rec THEN RegistryCall("RegisterChain", c, id, r.err)
                       ELSE dispatched
      /\ UNCHANGED <<uvars, tvars, yvars, svars, wvars, pvars, mvars>>

\* DeregisterChain is called; with rec the call and its error are recorded.
DeregisterChainOn(rec) ==
  \E c \in Chains, id \in Identifiers :
    \E r \in {DeregisterChain(chainHandlers, c, id)} :
      /\ chainHandlers' = r.ed
      /\ registered' = IF r.err THEN registered
                       ELSE [registered EXCEPT ![c] = Without(@, id)]
      /\ dispatched' = IF rec THEN RegistryCall("DeregisterChain", c, id, r.err)
                       ELSE dispatched
      /\ UNCHANGED <<uvars, tvars, yvars, svars, wvars, pvars, mvars>>

RegisterChainStep == RegisterChainOn(FALSE)

DeregisterChainStep == DeregisterChainOn(FALSE)

RegisterChainCall == RegisterChainOn(TRUE)

DeregisterChainCall == DeregisterChainOn(TRUE)

\* Consensus accepts a container of a chain; the handlers of failing return
\* an error.
AcceptEventStep ==
  \E c \in Chains :
    \E ord \in Perms(Events(chainHandlers, c)) :
      \E failing \in SUBSET Events(chainHandlers, c) :
        \E r \in {DispatchAccept(chainHandlers, c, ord, failing)} :
          /\ dispatched' = [chain |-> c, kind |-> "Accept",
                            failed |-> Failed(r.invoked, failing),
                            invoked |-> r.invoked,
                            err |-> r.err]
          /\ UNCHANGED <<chainHandlers, registered, uvars, tvars, yvars, svars,
                         wvars, pvars, mvars>>

RejectEventStep ==
  \E c \in Chains :
    \E ord \in Perms(Events(chainHandlers, c)) :
      \E failing \in SUBSET Events(chainHandlers, c) :
        \E r \in {DispatchReject(chainHandlers, c, ord, failing)} :
          /\ dispatched' = [chain |-> c, kind |-> "Reject",
                            failed |-> Failed(r.invoked, failing),
                            invoked |-> r.invoked,
                            err |-> r.err]
          /\ UNCHANGED <<chainHandlers, registered, uvars, tvars, yvars, svars,
                         wvars, pvars, mvars>>

IssueEventStep ==
  \E c \in Chains :
    \E ord \in Perms(Events(chainHandlers, c)) :
      \E failing \in SUBSET Events(chainHandlers, c) :
        \E r \in {DispatchIssue(chainHandlers, c, ord, failing)} :
          /\ dispatched' = [chain |-> c, kind |-> "Issue",
                            failed |-> Failed(r.invoked, failing),
                            invoked |-> r.invoked,
                            err |-> r.err]
          /\ UNCHANGED <<chainHandlers, registered, uvars, tvars, yvars, svars,
                         wvars, pvars, mvars>>

NextDispatch ==
  \/ RegisterChainStep
  \/ DeregisterChainStep
  \/ AcceptEventStep
  \/ RejectEventStep
  \/ IssueEventStep

InitDispatch == InitOn(SmallDags)

SpecDispatch == InitDispatch /\ [][NextDispatch]_vars

\* The registry alone, every call of it recorded.
NextRegistry ==
  \/ RegisterChainCall
  \/ DeregisterChainCall

InitRegistry == InitOn(SmallDags)

SpecRegistry == InitRegistry /\ [][NextRegistry]_vars

\* --------------------------------------------------------- poll actions
\* The bags of at most MaxSample validators.
Samples == { b \in [Voters -> 0 .. MaxSample] : BagLen(b) <= MaxSample }

\* The factory creates a poll over a bag of sampled validators.
NewPollStep ==
  \E b \in Samples :
    /\ poll' = NewNoEarlyTermPoll(b)
    /\ sampled' = b
    /\ voted' = {}
    /\ dropped' = {}
    /\ lastVote' = NoVote
    /\ UNCHANGED <<uvars, tvars, yvars, svars, wvars, dvars, mvars>>

\* A validator answers the poll.
VoteStep ==
  \E vdr \in Voters, votes \in SUBSET VoteIDs :
    /\ poll' = Vote(poll, vdr, votes)
    /\ voted' = voted \cup {vdr}
    /\ lastVote' = [vdr |-> vdr, votes |-> votes, again |-> vdr \in voted]
    /\ UNCHANGED <<sampled, dropped, uvars, tvars, yvars, svars, wvars, dvars,
                   mvars>>

\* The request to a validator failed.
DropStep ==
  \E vdr \in Voters :
    /\ poll' = Drop(poll, vdr)
    /\ dropped' = dropped \cup {vdr}
    /\ UNCHANGED <<sampled, voted, lastVote, uvars, tvars, yvars, svars, wvars,
                   dvars, mvars>>

NextPoll ==
  \/ NewPollStep
  \/ VoteStep
  \/ DropStep

InitPoll == InitOn(SmallDags)

SpecPoll == InitPoll /\ [][NextPoll]_vars

\* ------------------------------------------------------ manager actions
\* A goroutine calls an operation that takes the lock, and gets the lock.
LockStep ==
  \E p \in Procs, c \in ManagerCalls :
    /\ pc[p] = "idle"
    /\ CanLock(lock)
    /\ lock' = p
    /\ call' = [call EXCEPT ![p] = c]
    /\ pc' = [pc EXCEPT ![p] = IF c.op \in Readers THEN "read" ELSE "check"]
    /\ UNCHANGED <<manager, seen, committed, uvars, tvars, yvars, svars, wvars,
                   dvars, pvars>>

\* GetValidators, Contains or String reads the set and returns.
ReadStep ==
  \E p \in Procs :
    /\ pc[p] = "read"
    /\ seen' = Read(manager, call[p])
    /\ lock' = NoProc
    /\ pc' = [pc EXCEPT ![p] = "idle"]
    /\ call' = [call EXCEPT ![p] = NoCall]
    /\ UNCHANGED <<manager, committed, uvars, tvars, yvars, svars, wvars, dvars,
                   pvars>>

\* MaskValidator or RevealValidator looks at maskedVdrs, and returns or
\* changes it.
MaskedVdrsStep ==
  \E p \in Procs :
    /\ pc[p] = "check"
    /\ \E r \in {maskedVdrsStep(manager, call[p])} :
         /\ manager' = r.m
         /\ lock' = IF r.on THEN lock ELSE NoProc
         /\ pc' = [pc EXCEPT ![p] = IF r.on THEN "set" ELSE "idle"]
         /\ call' = IF r.on THEN call ELSE [call EXCEPT ![p] = NoCall]
    /\ UNCHANGED <<seen, committed, uvars, tvars, yvars, svars, wvars, dvars, pvars>>

\* MaskValidator or RevealValidator calls the set and returns what it
\* returns.
ValidatorsStep ==
  \E p \in Procs, fault \in SetFaults :
    /\ pc[p] = "set"
    /\ manager' = validatorsStep(manager, call[p], fault)
    /\ committed' = validatorsStep(manager, call[p], fault)
    /\ lock' = NoProc
    /\ pc' = [pc EXCEPT ![p] = "idle"]
    /\ call' = [call EXCEPT ![p] = NoCall]
    /\ UNCHANGED <<seen, uvars, tvars, yvars, svars, wvars, dvars, pvars>>

\* A goroutine calls Mutate.
MutateStep ==
  \E p \in Procs :
    /\ pc[p] = "idle"
    /\ seen' = Mutate(manager, \E q \in Procs : pc[q] = "set")
    /\ UNCHANGED <<manager, lock, pc, call, committed, uvars, tvars, yvars, svars,
                   wvars, dvars, pvars>>

NextManager ==
  \/ LockStep
  \/ ReadStep
  \/ MaskedVdrsStep
  \/ ValidatorsStep
  \/ MutateStep

InitManager == InitOn(SmallDags)

SpecManager == InitManager /\ [][NextManager]_vars

\* ----------------------------------------------------- VMServer actions
\* The node calls Initialize on the VMServer.
ServerInitializeStep ==
  \E fault \in InitFaults :
    \E r \in {ServerInitialize(vmServer, fault)} :
      /\ ~vmServer.panicked
      /\ Len(r.s.chans) <= MaxChannels
      /\ vmServer' = r.s
      /\ rpc' = [op |-> "Initialize", err |-> r.err,
                 nilBefore |-> vmServer.closed = Nil, vmCalled |-> FALSE]
      /\ UNCHANGED <<uvars, tvars, svars, wvars, dvars, pvars, mvars, bvars>>

\* The node calls Shutdown on the VMServer.
ServerShutdownStep ==
  \E vmErr \in BOOLEAN :
    \E r \in {ServerShutdown(vmServer, vmErr)} :
      /\ ~vmServer.panicked
      /\ vmServer' = r.s
      /\ rpc' = [op |-> "Shutdown", err |-> r.err,
                 nilBefore |-> vmServer.closed = Nil,
                 vmCalled |-> r.s.vmShutdowns # vmServer.vmShutdowns]
      /\ UNCHANGED <<uvars, tvars, svars, wvars, dvars, pvars, mvars, bvars>>

NextServer ==
  \/ ServerInitializeStep
  \/ ServerShutdownStep

InitServer == InitOn(SmallDags)

SpecServer == InitServer /\ [][NextServer]_vars

\* -------------------------------------------------- BlockClient actions
\* Consensus accepts a block.
BlockAcceptStep ==
  \E b \in Blocks, fault \in RPCFaults :
    \E r \in {BlockAccept(blocks, b, fault)} :
      /\ blocks' = r.blocks
      /\ remote' = BlockDecided(remote, b, Accepted, fault)
      /\ decided' = [op |-> "Accept", blk |-> b,
                     before |-> BlockStatus(blocks, b), err |-> r.err]
      /\ UNCHANGED <<uvars, tvars, svars, wvars, dvars, pvars, mvars, rvars>>

\* Consensus rejects a block.
BlockRejectStep ==
  \E b \in Blocks, fault \in RPCFaults :
    \E r \in {BlockReject(blocks, b, fault)} :
      /\ blocks' = r.blocks
      /\ remote' = BlockDecided(remote, b, Rejected, fault)
      /\ decided' = [op |-> "Reject", blk |-> b,
                     before |-> BlockStatus(blocks, b), err |-> r.err]
      /\ UNCHANGED <<uvars, tvars, svars, wvars, dvars, pvars, mvars, rvars>>

NextBlock ==
  \/ BlockAcceptStep
  \/ BlockRejectStep

InitBlock == InitOn(SmallDags)

SpecBlock == InitBlock /\ [][NextBlock]_vars

\* ------------------------------------------------------------ properties
\* The step taken is the one that leads to world w.
Took(w) ==
  /\ hv' = w.hv
  /\ st' = Collect(w)
  /\ cache' = w.cache
  /\ edge' = w.edge
  /\ buf' = w.buf
  /\ db' = w.db
  /\ lastSet' = w.lastSet
  /\ txAcc' = w.txAcc

InUse == 1 .. dag.n

RECURSIVE AncestorsUpTo(_, _)
AncestorsUpTo(v, k) ==
  IF k = 0 THEN {}
  ELSE dag.parents[v] \cup
       UNION { AncestorsUpTo(p, k - 1) : p \in dag.parents[v] }

\* The proper ancestors of v through parent links.
Ancestors(v) == AncestorsUpTo(v, dag.n)

\* A vertex whose bytes and status are durable.
Stored(v) == v \in db.vtx

\* C1: once the status of a vertex is Accepted or Rejected it never changes
\* again (stated on the durable status record of a vertex whose bytes are
\* stored).
MonotoneStatus ==
  [][\A v \in InUse :
       (Stored(v) /\ Decided(db.status[v])) => db'.status[v] = db.status[v]]_vars

\* C2: every Accepted vertex has all of its parents Accepted (stated on the
\* durable status records).
ParentBeforeChild ==
  \A v \in InUse :
    (Stored(v) /\ db.status[v] = Accepted)
      => \A p \in dag.parents[v] : db.status[p] = Accepted

\* C3: the edge contains only Accepted vertices and no member of the edge is
\* an ancestor of another member (stated on the members whose bytes are
\* stored).
FrontierSound ==
  LET e == { v \in edge : Stored(v) }
  IN  /\ \A v \in e : lastSet[v] = Accepted
      /\ \A a \in e : \A b \in e : a \notin Ancestors(b)

\* C4: after Accept(V) returns without error V is in the edge, no parent of V
\* is in the edge, and every other vertex is in the edge exactly if it was
\* before the call.
FrontierUpdateOnAccept ==
  [][\A h \in Handles : \A fail \in BOOLEAN :
       \A w \in {Accept(World, h, fail)} :
       LET id == HandleID(h)
       IN  (w.err = "nil" /\ Took(w))
             => /\ id \in edge'
                /\ dag.parents[id] \cap edge' = {}
                /\ \A u \in Vtx \ ({id} \cup dag.parents[id]) :
                     (u \in edge') <=> (u \in edge)]_vars

\* A successful Accept of the child has replaced its parent on the edge.
FrontierUpdateWitness ==
  /\ edge = {2}
  /\ db.edge = <<{2}>>
  /\ db.status[1] = Accepted
  /\ db.status[2] = Accepted

\* C5: the status record 'V = Accepted' and the edge record produced by
\* Accept(V) become durable in the same commit, never one without the other.
CommitAtomicity ==
  [][\A v \in InUse :
       /\ (db'.status[v] = Accepted /\ db.status[v] # Accepted)
            => (db'.edge # <<>> /\ db'.edge # db.edge)
       /\ (db'.edge # <<>> /\ v \in db'.edge[1]
             /\ (db.edge = <<>> \/ v \notin db.edge[1]))
            => db'.status[v] = Accepted]_vars

Before(ops, a, b) ==
  \A i \in DOMAIN ops : \A j \in DOMAIN ops :
    (ops[i] = a /\ ops[j] = b) => i < j

CommitLast(ops) ==
  \A i \in DOMAIN ops : ops[i] = "Commit" => i = Len(ops)

\* C6: inside Accept the status write is staged first, then the in-memory
\* edge is updated and the edge record staged, and only then one commit is
\* issued; inside Reject the status write is staged before the single commit.
OrderingInsideAccept ==
  [][/\ \A h \in Handles : \A fail \in BOOLEAN :
          \A w \in {Accept(World, h, fail)} :
              Took(w)
                => /\ Before(w.ops, "SetStatus", "edge")
                   /\ Before(w.ops, "edge", "SetEdge")
                   /\ Before(w.ops, "SetEdge", "Commit")
                   /\ CommitLast(w.ops)
                   /\ (w.err = "nil" /\ lastSet[HandleID(h)] # Accepted)
                        => w.ops = <<"SetStatus", "edge", "SetEdge", "Commit">>
     /\ \A h \in Handles : \A fail \in BOOLEAN :
          \A w \in {Reject(World, h, fail)} :
              Took(w)
                => /\ Before(w.ops, "SetStatus", "Commit")
                   /\ CommitLast(w.ops)
                   /\ (w.err = "nil" /\ lastSet[HandleID(h)] # Rejected)
                        => w.ops = <<"SetStatus", "Commit">>]_vars

\* An Accept and a Reject have each committed their status write.
OrderingWitness ==
  /\ db.status[1] = Accepted
  /\ db.status[2] = Rejected
  /\ db.edge = <<{1}>>
  /\ buf = EmptyRecords

\* C7: Status() called on any handle of an id returns the status most
\* recently set for that id, whatever was evicted and whichever handle made
\* the decision.
StaleHandlesYieldCurrentStatus ==
  \A h \in Handles :
    \A w \in {Status(World, h)} : StatusValue(w, h) = lastSet[HandleID(h)]

\* A handle whose vertexState was evicted holds a status older than the
\* decision made through another handle that is now in the cache.
StaleHandleWitness ==
  \E h \in Handles :
    /\ hv[h] # Nil
    /\ ~st[hv[h]].latest
    /\ cache[HandleID(h)] \notin {Nil, h}
    /\ hv[cache[HandleID(h)]] # hv[h]
    /\ st[hv[h]].status = Processing
    /\ lastSet[HandleID(h)] = Accepted


\* ------------------------------------------------- properties of Verify
\* The handles Verify can be called on: they hold a parsed vertex.
Verifiable(h) == hv[h] # Nil /\ st[hv[h]].vtx

RECURSIVE ReachUpTo(_, _)
ReachUpTo(S, k) ==
  IF k = 0 THEN S
  ELSE ReachUpTo(S \cup UNION { dag.parents[u] :
                                  u \in { x \in S : lastSet[x] # Accepted } },
                 k - 1)

\* The vertices the parent-link walk from v reaches when it walks only
\* through vertices that are not Accepted.
Reach(v) == ReachUpTo({v}, dag.n)

\* The Accepted vertices at which the walk from v stops.
Boundary(v) == { u \in Reach(v) : lastSet[u] = Accepted }

\* The vertices the walk from v passes through.
Passed(v) == { u \in Reach(v) : lastSet[u] # Accepted }

\* Some transaction of a vertex the walk passes through has a dependency
\* that is not Accepted and is not an id of the transitive path.
OutsideDependency(v) ==
  \E u \in Passed(v) : \E d \in dag.deps[u] :
    /\ d \notin txAcc
    /\ TxID(d) \notin (Passed(v) \cup { TxID(x) : x \in Passed(v) })

\* The bytes of vertex v can be obtained by a handle of v.
BytesAvailable(v) == tempVtx(tempRefresh(World, v), v)

\* Verify does not fail for missing bytes: the bytes of every member of the
\* edge and of every vertex the walk from v passes through are available.
WalkCompletes(v) ==
  /\ \A e \in edge : BytesAvailable(e)
  /\ \A u \in Passed(v) : BytesAvailable(u)

NoStopVertexOnEdge == \A e \in edge : ~dag.stop[e]

\* C8: once a stop vertex has been Accepted, Verify of every vertex returns
\* errStopVertexAlreadyAccepted (stated for calls at or after the activation
\* time, while the stop vertex is still Accepted and the bytes of every
\* member of the edge are stored).
OneShotStopVertex ==
  (/\ \E v \in InUse : dag.stop[v] /\ Stored(v) /\ db.status[v] = Accepted
   /\ \A e \in edge : Stored(e))
    => \A h \in Handles : \A ord \in Perms(edge) :
         Verifiable(h)
           => \A w \in {Verify(World, h, FALSE, ord)} :
                w.err = "errStopVertexAlreadyAccepted"

\* C9 as stated: for a stop vertex verified at or after the activation time
\* with no stop vertex on the edge, Verify returns errUnexpectedEdges exactly
\* when the Accepted vertices at which the walk stops differ from the edge.
StopVertexFrontierCheckAlways ==
  \A h \in Handles : \A ord \in Perms(edge) :
    (Verifiable(h) /\ dag.stop[HandleID(h)] /\ NoStopVertexOnEdge)
      => \A w \in {Verify(World, h, FALSE, ord)} :
           (w.err = "errUnexpectedEdges") <=> (Boundary(HandleID(h)) # edge)

\* C9 amended: the same, for calls in which the bytes of every member of the
\* edge and of every vertex the walk passes through are available; in the
\* other calls Verify fails for the missing bytes before it compares the
\* boundary with the edge.
StopVertexFrontierCheck ==
  \A h \in Handles : \A ord \in Perms(edge) :
    (Verifiable(h) /\ dag.stop[HandleID(h)] /\ NoStopVertexOnEdge)
      => \A w \in {Verify(World, h, FALSE, ord)} :
           /\ WalkCompletes(HandleID(h))
                => ((w.err = "errUnexpectedEdges")
                      <=> (Boundary(HandleID(h)) # edge))
           /\ ~WalkCompletes(HandleID(h)) => w.err \in {"errTxs", "panic"}

\* Verify of the stop vertex 3 has returned errUnexpectedEdges: its walk
\* stops at 1 and the edge holds the two Accepted roots.
FrontierCheckWitness ==
  /\ verified = [id |-> 3, err |-> "errUnexpectedEdges"]
  /\ dag.stop[3]
  /\ edge = {1, 2}
  /\ Boundary(3) = {1}
  /\ WalkCompletes(3)

\* C10 as stated: for a stop vertex whose walk boundary equals the edge,
\* Verify returns errUnexpectedDependencyStopVtx exactly when a transaction
\* of a vertex the walk passes through has a dependency that is not Accepted
\* and not on the transitive path; otherwise Verify returns nil.
DependencyClosureAlways ==
  \A h \in Handles : \A before \in BOOLEAN : \A ord \in Perms(edge) :
    (Verifiable(h) /\ dag.stop[HandleID(h)] /\ Boundary(HandleID(h)) = edge)
      => \A w \in {Verify(World, h, before, ord)} :
           w.err = IF OutsideDependency(HandleID(h))
                   THEN "errUnexpectedDependencyStopVtx" ELSE "nil"

\* C10 amended: the same, for a call at or after the activation time, with
\* no stop vertex on the edge and with the bytes of every member of the edge
\* and of every vertex the walk passes through available.
DependencyClosure ==
  \A h \in Handles : \A ord \in Perms(edge) :
    (/\ Verifiable(h)
     /\ dag.stop[HandleID(h)]
     /\ NoStopVertexOnEdge
     /\ WalkCompletes(HandleID(h))
     /\ Boundary(HandleID(h)) = edge)
      => \A w \in {Verify(World, h, FALSE, ord)} :
           w.err = IF OutsideDependency(HandleID(h))
                   THEN "errUnexpectedDependencyStopVtx" ELSE "nil"

\* Verify of a stop vertex has returned errUnexpectedDependencyStopVtx with
\* its walk boundary equal to a non-empty edge.
DependencyClosureWitness ==
  /\ verified.id # Nil
  /\ verified.err = "errUnexpectedDependencyStopVtx"
  /\ dag.stop[verified.id]
  /\ edge # {}
  /\ Boundary(verified.id) = edge
  /\ OutsideDependency(verified.id)
  /\ WalkCompletes(verified.id)

\* The call left every vertex status, the edge and every stored record as
\* they are.
NoStateChange(w) ==
  /\ w.hv = hv
  /\ w.st = st
  /\ w.lastSet = lastSet
  /\ w.edge = edge
  /\ w.buf = buf
  /\ w.db = db

\* C11: Verify of a stop vertex before the activation time returns
\* errStopVertexNotAllowedTimestamp and changes no vertex status, no edge
\* member and no stored record; Verify of a vertex without the stop flag
\* never returns that error and returns what it returns after the
\* activation time.
StopVertexBeforeActivation ==
  \A h \in Handles : \A ord \in Perms(edge) :
    Verifiable(h)
      => \A w \in {Verify(World, h, TRUE, ord)} :
           IF dag.stop[HandleID(h)]
           THEN w.err = "errStopVertexNotAllowedTimestamp" /\ NoStateChange(w)
           ELSE /\ w.err # "errStopVertexNotAllowedTimestamp"
                /\ w.err = Verify(World, h, FALSE, ord).err

\* Verify of a stop vertex has returned errStopVertexNotAllowedTimestamp in
\* a state with a vertex on the edge and records in the store.
BeforeActivationWitness ==
  /\ verified.id # Nil
  /\ dag.stop[verified.id]
  /\ verified.err = "errStopVertexNotAllowedTimestamp"
  /\ edge # {}
  /\ db.edge # <<>>

\* ---------------------------------------------- properties of Whitelist
\* The set Verify uses as the transitive path of the vertex of handle h.
TransitivePath(h, ord) ==
  walk([w |-> edgeLoop(World, ord),
        queue |-> <<[id |-> HandleID(h), h |-> h]>>,
        visited |-> {}, frontier |-> {}, paths |-> {}, deps |-> {}]).paths

\* The ids of the vertices the walk from v passes through and of their
\* transactions.
PassedIDs(v) == Passed(v) \cup { TxID(u) : u \in Passed(v) }

\* C12: for a stop vertex V that passes Verify, Whitelist returns exactly the
\* ids of V, of every vertex that is not Accepted and is reachable from V
\* through parent links without passing through an Accepted vertex, and of
\* the transactions of those vertices, the set Verify uses as the transitive
\* path; for a vertex without the stop flag Whitelist returns no set.
StopVertexTotality ==
  \A h \in Handles : \A ord \in Perms(edge) :
    Verifiable(h)
      => IF dag.stop[HandleID(h)]
         THEN \A w \in {Verify(World, h, FALSE, ord)} :
                w.err = "nil"
                  => \A r \in {Whitelist(World, h), Whitelist(w, h)} :
                       /\ r.has
                       /\ HandleID(h) \in r.set
                       /\ r.set = PassedIDs(HandleID(h))
                       /\ r.set = TransitivePath(h, ord)
         ELSE ~Whitelist(World, h).has

\* Whitelist of a stop vertex that passes Verify has returned the ids of two
\* vertices and of their transactions.
TotalityWitness ==
  /\ listed.has
  /\ dag.stop[listed.id]
  /\ Cardinality(listed.set) = 4
  /\ listed.set = PassedIDs(listed.id)
  /\ \E h \in Handles : \E ord \in Perms(edge) :
       /\ Verifiable(h)
       /\ HandleID(h) = listed.id
       /\ Verify(World, h, FALSE, ord).err = "nil"

\* ------------------------------------------------ properties of the edge
\* The greatest height of a member of e; below every height when e is empty.
MaxHeight(e) ==
  IF e = {} THEN -1
  ELSE CHOOSE m \in { Height(dag, v) : v \in e } :
         \A v \in e : Height(dag, v) <= m

\* C13: across every Accept step the maximum height over the members of the
\* edge does not decrease (every step that changes the edge is an Accept
\* step, and it does not lower the maximum).
HeightNonRegression ==
  [][edge' # edge
       => /\ \E h \in Handles : \E fail \in BOOLEAN :
               \E w \in {Accept(World, h, fail)} : Took(w)
          /\ MaxHeight(edge') >= MaxHeight(edge)]_vars

\* An Accept has put a vertex of height 2 on the edge and committed it.
HeightWitness ==
  /\ MaxHeight(edge) = 2
  /\ db.edge = <<edge>>
  /\ \E v \in edge : dag.parents[v] # {} /\ dag.parents[v] \cap edge = {}

\* The members of the edge that v is, or is an ancestor of.
MembersAbove(v) == { e \in edge : v = e \/ v \in Ancestors(e) }

\* Every Accepted vertex has its parents Accepted, and the edge holds only
\* Accepted vertices none of which is an ancestor of another.
OrderlyFrontier ==
  /\ \A v \in InUse : lastSet[v] = Accepted
        => \A p \in dag.parents[v] : lastSet[p] = Accepted
  /\ \A a \in edge : lastSet[a] = Accepted
  /\ \A a \in edge : \A b \in edge : a \notin Ancestors(b)

\* C14 as stated: every Accepted vertex is an ancestor of, or is itself,
\* exactly one member of the edge (stated for the states in which parents
\* were accepted before their children and the edge is an antichain of
\* Accepted vertices).
ExactlyOneFrontierMember ==
  OrderlyFrontier
    => \A v \in InUse :
         lastSet[v] = Accepted => Cardinality(MembersAbove(v)) = 1

\* C14 amended: every Accepted vertex is an ancestor of, or is itself, at
\* least one member of the edge.
SomeFrontierMember ==
  \A v \in InUse :
    (lastSet[v] = Accepted \/ db.status[v] = Accepted) => MembersAbove(v) # {}

\* Two children of an Accepted vertex have been accepted: the vertex is an
\* ancestor of two members of the edge.
FrontierMemberWitness ==
  /\ OrderlyFrontier
  /\ \E v \in InUse :
       /\ lastSet[v] = Accepted
       /\ db.status[v] = Accepted
       /\ Cardinality(MembersAbove(v)) = 2

\* ------------------------------------------- properties of the lifecycle
\* What a call that received the bytes of vertex id through the new handle
\* h and ended in world w has done, fail telling whether its commit failed.
FirstSight(w, h, fail) ==
  LET id == HandleID(h)
  IN  IF ~Fetched(lastSet[id])
      THEN /\ w.lastSet[id] = Processing
           /\ StatusValue(w, h) = Processing
           /\ w.st[w.hv[h]].vtx
           /\ w.ops = IF fail THEN <<"SetVertex", "SetStatus">>
                             ELSE <<"SetVertex", "SetStatus", "Commit">>
           /\ IF fail
              THEN /\ w.db = db
                   /\ id \in w.buf.vtx
                   /\ w.buf.status[id] = Processing
              ELSE /\ id \in w.db.vtx
                   /\ w.db.status[id] = Processing
                   /\ id \notin db.vtx
                   /\ db.status[id] # Processing
      ELSE /\ w.lastSet = lastSet
           /\ StatusValue(w, h) = lastSet[id]
           /\ w.ops = <<>>
           /\ w.buf = buf
           /\ w.db = db

SameOutcome(a, b, h) ==
  /\ a.err = b.err
  /\ a.lastSet = b.lastSet
  /\ StatusValue(a, h) = StatusValue(b, h)
  /\ a.st[a.hv[h]].vtx = b.st[b.hv[h]].vtx
  /\ a.edge = b.edge
  /\ a.buf = b.buf
  /\ a.db = b.db

\* The worlds after Evict on h: as Evict leaves it, and with the entry of
\* the cache that held h gone.
Evicted(h) ==
  { w \in { Evict(World, h),
            [Evict(World, h) EXCEPT !.cache[HandleID(h)] =
               IF @ = h THEN Nil ELSE @] } : TRUE }

\* C16: Evict changes only the latest bit (to false) and the cached parents
\* (to empty) of the vertexState of the handle; the in-memory status, the
\* inner vertex, the stored records and the edge are unchanged, and every
\* operation on the evicted handle ends as it would have without the
\* eviction.
EvictFrame ==
  \A h \in Handles :
    /\ \A w \in {Evict(World, h)} :
         /\ w.hv = hv
         /\ w.cache = cache
         /\ w.edge = edge
         /\ w.buf = buf
         /\ w.db = db
         /\ w.lastSet = lastSet
         /\ \A s \in Handles :
              w.st[s] = IF hv[h] # Nil /\ s = hv[h]
                        THEN [st[s] EXCEPT !.latest = FALSE, !.parents = FALSE]
                        ELSE st[s]
    /\ hv[h] # Nil
         => \A e \in Evicted(h) :
              /\ SameOutcome(Status(e, h), Status(World, h), h)
              /\ SameOutcome(Parents(e, h), Parents(World, h), h)
              /\ \A fail \in BOOLEAN :
                   /\ SameOutcome(Accept(e, h, fail), Accept(World, h, fail), h)
                   /\ SameOutcome(Reject(e, h, fail), Reject(World, h, fail), h)

\* The handle of an Accepted vertex on the edge has been evicted: the latest
\* bit is off, the cache has no entry and the inner vertex and the status
\* are still in memory.
EvictWitness ==
  \E h \in Handles :
    /\ hv[h] # Nil
    /\ ~st[hv[h]].latest
    /\ ~st[hv[h]].parents
    /\ cache[HandleID(h)] = Nil
    /\ st[hv[h]].vtx
    /\ st[hv[h]].status = Accepted
    /\ HandleID(h) \in edge

\* ------------------------------------------- properties of the throttler
RECURSIVE SumMap(_)
SumMap(m) ==
  IF DOMAIN m = {} THEN 0
  ELSE LET k == CHOOSE x \in DOMAIN m : TRUE
       IN  m[k] + SumMap(MapDelete(m, k))

\* No counter has wrapped around: the pools and the usage of every node are
\* within the configured sizes, the bytes in use and the bytes remaining add
\* up to the allocations, and the release of every awaited message
\* subtracts no more than the node uses.
NoUnderflow ==
  /\ throttler.remainingVdrBytes <= VdrAllocSize
  /\ throttler.remainingAtLargeBytes <= AtLargeAllocSize
  /\ throttler.remainingVdrBytes + SumMap(throttler.nodeToVdrBytesUsed)
       = VdrAllocSize
  /\ throttler.remainingAtLargeBytes + SumMap(throttler.nodeToAtLargeBytesUsed)
       = AtLargeAllocSize
  /\ \A c \in Calls :
       (awaiting[c] > 0 /\ ~c.msg.bypass)
         => c.msg.size - vdrBytesToReturn(throttler, c.msg, c.node)
              <= MapGet(throttler.nodeToAtLargeBytesUsed, c.node)

\* C17: with a fixed validator set, whenever every Acquire that returned
\* true has been followed by its Release, in any order across messages and
\* nodes, the throttler is in its initial state: remainingVdrBytes =
\* VdrAllocSize, remainingAtLargeBytes = AtLargeAllocSize and both usage maps
\* are empty; no counter underflows on the way.
ExactAcquireRelease ==
  /\ NoUnderflow
  /\ AwaitingRelease = 0
       => /\ throttler.remainingVdrBytes = VdrAllocSize
          /\ throttler.remainingAtLargeBytes = AtLargeAllocSize
          /\ DOMAIN throttler.nodeToVdrBytesUsed = {}
          /\ DOMAIN throttler.nodeToAtLargeBytesUsed = {}

\* The last Acquire drew bytes from both allocations, and it and every
\* other message have been released since.
ExactReleaseWitness ==
  /\ AwaitingRelease = 0
  /\ acquired.ok
  /\ acquired.atLarge > 0
  /\ acquired.vdr > 0
  /\ throttler = NewSybilOutboundMsgThrottler

\* What is left for the node of the at-large allocation: up to its own
\* limit, and no more than the pool holds.
AtLargeShare(n) ==
  LET own == NodeMaxAtLargeBytes - MapGet(throttler.nodeToAtLargeBytesUsed, n)
  IN  IF own <= throttler.remainingAtLargeBytes THEN own
      ELSE throttler.remainingAtLargeBytes

\* What is left for the node of its validator allocation.
VdrShare(n) ==
  LET alloc == IF n \in Validators
               THEN (VdrAllocSize * Weights[n]) \div TotalWeight ELSE 0
      own == IF alloc >= MapGet(throttler.nodeToVdrBytesUsed, n)
             THEN alloc - MapGet(throttler.nodeToVdrBytesUsed, n) ELSE 0
  IN  IF own <= throttler.remainingVdrBytes THEN own
      ELSE throttler.remainingVdrBytes

\* The bytes of the message cannot be covered by the two shares of the node.
Uncoverable(c) == c.msg.size > AtLargeShare(c.node) + VdrShare(c.node)

\* C18 as stated: when the bytes of the message cannot be covered by the
\* remaining at-large share of the node plus its remaining validator share,
\* Acquire returns false and leaves the pools and the usage maps unchanged.
AcquireNeverBlocksAlways ==
  \A c \in Calls :
    Uncoverable(c)
      => \A r \in {Acquire(throttler, c.msg, c.node)} :
           ~r.ok /\ r.t = throttler

\* C18 amended: the same for a message that does not bypass throttling, and
\* Acquire returns false only then; a message that bypasses throttling is
\* admitted whatever is left, and changes nothing.
AcquireNeverBlocks ==
  \A c \in Calls :
    \A r \in {Acquire(throttler, c.msg, c.node)} :
      IF c.msg.bypass THEN r.ok /\ r.t = throttler
      ELSE /\ r.ok <=> ~Uncoverable(c)
           /\ ~r.ok => r.t = throttler

\* Acquire for a validator has returned false while messages are awaited
\* and the at-large pool is not empty.
NeverBlocksWitness ==
  /\ ~acquired.ok
  /\ acquired.node \in Validators
  /\ ~acquired.msg.bypass
  /\ AwaitingRelease > 0
  /\ throttler.remainingAtLargeBytes > 0
  /\ Uncoverable([node |-> acquired.node, msg |-> acquired.msg])

\* C19: in every reachable state the at-large bytes used by a node,
\* validator or not, are at most NodeMaxAtLargeBytes; and a node below its
\* limit acquires the at-large bytes that remain in the pool whatever the
\* other nodes use: a message that fits in its own room and in the pool is
\* admitted and drawn from the at-large pool alone.
PerNodeAtLargeLimit ==
  /\ \A n \in Nodes :
       MapGet(throttler.nodeToAtLargeBytesUsed, n) <= NodeMaxAtLargeBytes
  /\ \A c \in Calls :
       (/\ ~c.msg.bypass
        /\ c.msg.size <= NodeMaxAtLargeBytes
                           - MapGet(throttler.nodeToAtLargeBytesUsed, c.node)
        /\ c.msg.size <= throttler.remainingAtLargeBytes)
         => \A r \in {Acquire(throttler, c.msg, c.node)} :
              /\ r.ok
              /\ r.atLarge = c.msg.size
              /\ r.vdr = 0
              /\ MapGet(r.t.nodeToAtLargeBytesUsed, c.node)
                   = MapGet(throttler.nodeToAtLargeBytesUsed, c.node) + c.msg.size

\* One node has used its at-large limit, and the last Acquire, for another
\* node, was admitted from the at-large pool.
PerNodeLimitWitness ==
  /\ acquired.ok
  /\ acquired.atLarge > 0
  /\ \E n \in Nodes \ {acquired.node} :
       MapGet(throttler.nodeToAtLargeBytesUsed, n) = NodeMaxAtLargeBytes
  /\ MapGet(throttler.nodeToAtLargeBytesUsed, acquired.node) = acquired.atLarge

\* The smaller of two numbers.
Least(a, b) == IF a <= b THEN a ELSE b

\* Acquire splits the bytes of the message of call c with the at-large pool
\* first.
AcquirePriority(c) ==
  \A r \in {Acquire(throttler, c.msg, c.node)} :
       r.ok
         => /\ r.atLarge = Least(c.msg.size, AtLargeShare(c.node))
            /\ r.vdr = c.msg.size - r.atLarge
            /\ r.t.remainingAtLargeBytes
                 = throttler.remainingAtLargeBytes - r.atLarge
            /\ r.t.remainingVdrBytes = throttler.remainingVdrBytes - r.vdr
            /\ MapGet(r.t.nodeToAtLargeBytesUsed, c.node)
                 = MapGet(throttler.nodeToAtLargeBytesUsed, c.node) + r.atLarge
            /\ MapGet(r.t.nodeToVdrBytesUsed, c.node)
                 = MapGet(throttler.nodeToVdrBytesUsed, c.node) + r.vdr

\* Release of the awaited message of call c gives validator bytes back
\* first.
ReleasePriority(c) ==
  awaiting[c] > 0
       => \A t \in {Release(throttler, c.msg, c.node)} :
            LET back == Least(c.msg.size,
                              MapGet(throttler.nodeToVdrBytesUsed, c.node))
            IN  /\ t.remainingVdrBytes = throttler.remainingVdrBytes + back
                /\ MapGet(t.nodeToVdrBytesUsed, c.node)
                     = MapGet(throttler.nodeToVdrBytesUsed, c.node) - back
                /\ t.remainingAtLargeBytes
                     = throttler.remainingAtLargeBytes + (c.msg.size - back)
                /\ MapGet(t.nodeToAtLargeBytesUsed, c.node)
                     = MapGet(throttler.nodeToAtLargeBytesUsed, c.node)
                         - (c.msg.size - back)

\* C20 as stated: Acquire draws bytes from the at-large pool first and from
\* the validator allocation of the node only for the remainder; Release
\* gives min(size, validator bytes used by the node) back to the validator
\* allocation and the remainder back to the at-large pool.
AllocationPriorityAlways ==
  \A c \in Calls :
    /\ ~c.msg.bypass => AcquirePriority(c)
    /\ ReleasePriority(c)

\* C20 amended: the same for a message that does not bypass throttling; for
\* a message that bypasses throttling Acquire draws and Release gives back
\* nothing.
AllocationPriority ==
  \A c \in Calls :
    IF c.msg.bypass
    THEN /\ \A r \in {Acquire(throttler, c.msg, c.node)} :
              r.ok /\ r.atLarge = 0 /\ r.vdr = 0 /\ r.t = throttler
         /\ Release(throttler, c.msg, c.node) = throttler
    ELSE AcquirePriority(c) /\ ReleasePriority(c)

\* The last Acquire drew from both allocations and its message has been
\* released while another message of the node is awaited: the validator
\* bytes went back first and the node still uses at-large bytes.
PriorityWitness ==
  /\ acquired.ok
  /\ acquired.atLarge > 0
  /\ acquired.vdr > 0
  /\ awaiting[[node |-> acquired.node, msg |-> acquired.msg]] = 0
  /\ AwaitingRelease > 0
  /\ MapGet(throttler.nodeToVdrBytesUsed, acquired.node) = 0
  /\ MapGet(throttler.nodeToAtLargeBytesUsed, acquired.node) > 0

\* The messages that request bypass.
BypassMsgs == { m \in Msgs : m.bypass }

\* C21: for a message that requests bypass, Acquire returns true in every
\* state, also when both allocations are exhausted or the node is at its
\* at-large limit, and neither that Acquire nor the matching Release changes
\* any byte counter or per-node usage entry.
BypassFrame ==
  \A n \in Nodes, m \in BypassMsgs :
    /\ Acquire(throttler, m, n).ok
    /\ Acquire(throttler, m, n).t = throttler
    /\ Release(throttler, m, n) = throttler

\* The last Acquire admitted a bypassing message for a node that is at its
\* at-large limit, with the at-large allocation exhausted and nothing left
\* of a validator allocation for the node: the same message without bypass
\* is refused.
BypassWitness ==
  /\ acquired.ok
  /\ acquired.msg.bypass
  /\ awaiting[[node |-> acquired.node, msg |-> acquired.msg]] > 0
  /\ MapGet(throttler.nodeToAtLargeBytesUsed, acquired.node)
       = NodeMaxAtLargeBytes
  /\ throttler.remainingAtLargeBytes = 0
  /\ vdrBytesAllowed(throttler, acquired.node) = 0
  /\ ~Acquire(throttler, [acquired.msg EXCEPT !.bypass = FALSE],
              acquired.node).ok

\* C30: in every state reached by Acquire calls and by Release calls that
\* each match an earlier successful Acquire, remainingAtLargeBytes plus the
\* sum of nodeToAtLargeBytesUsed is AtLargeAllocSize, remainingVdrBytes plus
\* the sum of nodeToVdrBytesUsed is VdrAllocSize, and neither per-node map
\* holds an entry equal to 0.
ByteConservation ==
  /\ throttler.remainingAtLargeBytes
       + SumMap(throttler.nodeToAtLargeBytesUsed) = AtLargeAllocSize
  /\ throttler.remainingVdrBytes
       + SumMap(throttler.nodeToVdrBytesUsed) = VdrAllocSize
  /\ \A k \in DOMAIN throttler.nodeToAtLargeBytesUsed :
       throttler.nodeToAtLargeBytesUsed[k] # 0
  /\ \A k \in DOMAIN throttler.nodeToVdrBytesUsed :
       throttler.nodeToVdrBytesUsed[k] # 0

\* The last Acquire drew bytes of both allocations for a node; a Release
\* has since removed the node's entry of the validator map, while the node
\* still has an at-large entry and both allocations are in use.
ConservationWitness ==
  /\ acquired.ok
  /\ acquired.atLarge > 0
  /\ acquired.vdr > 0
  /\ acquired.node \notin DOMAIN throttler.nodeToVdrBytesUsed
  /\ acquired.node \in DOMAIN throttler.nodeToAtLargeBytesUsed
  /\ throttler.remainingVdrBytes < VdrAllocSize
  /\ throttler.remainingAtLargeBytes < AtLargeAllocSize

\* ------------------------------------------- properties of nnarySlush
\* C29: after Initialize(c0) and any sequence of RecordSuccessfulPoll
\* calls, Preference() is the choice of the most recent
\* RecordSuccessfulPoll, or c0 when there has been none.
SlushPreference ==
  initial # Nil
    => Preference(slush) = IF polls = <<>> THEN initial
                           ELSE polls[Len(polls)]

\* Two polls for different choices, the last for a choice that is not the
\* initial one.
SlushWitness ==
  /\ initial # Nil
  /\ Len(polls) >= 2
  /\ polls[Len(polls)] # polls[Len(polls) - 1]
  /\ polls[Len(polls)] # initial
  /\ Preference(slush) = polls[Len(polls)]

\* ---------------------------------------- properties of weightTracker
\* C24: once EnoughConnectedWeight() has returned true it returns true in
\* every later state, for any sequence of AddWeightForNode and
\* RemoveWeightForNode calls, also when the tracked weight falls below
\* startupAlpha.
OneWayLatch ==
  [][EnoughConnectedWeight(tracker) => EnoughConnectedWeight(tracker')]_vars

\* The flag is set while the tracked weight, and the weight of the beacons
\* connected, are below startupAlpha.
LatchWitness ==
  /\ EnoughConnectedWeight(tracker)
  /\ tracker.weight < tracker.startupAlpha
  /\ BeaconWeight(connected) < StartupAlpha

\* C25: EnoughConnectedWeight() is true only if at some earlier moment the
\* sum of the beacon weights of the distinct nodes connected at that moment
\* (added and not since removed, each node counted once) was at least
\* startupAlpha, and it becomes true at the AddWeightForNode call that first
\* brings that sum to startupAlpha or above.
BootstrapGate == EnoughConnectedWeight(tracker) <=> reached

\* -------------------------------------- properties of EventDispatcher
\* The handlers invoked by an event that failed and were registered with
\* dieOnError on the chain.
DiedOn(c, r, failing) ==
  { i \in 1 .. Len(r.invoked) :
      /\ r.invoked[i] \in failing
      /\ chainHandlers[c][r.invoked[i]].dieOnError }

\* C22: EventDispatcher.Accept returns a non-nil error exactly when a
\* handler registered with dieOnError = true for that chain was invoked and
\* its Accept returned an error; an error from a handler without dieOnError
\* never makes Accept return an error, and Reject and Issue return nil
\* whatever the handlers return.
DieOnError ==
  \A c \in Chains :
    \A ord \in Perms(Events(chainHandlers, c)) :
      \A failing \in SUBSET Events(chainHandlers, c) :
        /\ DispatchAccept(chainHandlers, c, ord, failing).err
             <=> DiedOn(c, DispatchAccept(chainHandlers, c, ord, failing),
                        failing) # {}
        /\ ~DispatchReject(chainHandlers, c, ord, failing).err
        /\ ~DispatchIssue(chainHandlers, c, ord, failing).err

\* The last Accept event invoked a handler without dieOnError that failed,
\* went on to a handler with dieOnError that failed, and returned an error.
DieOnErrorWitness ==
  /\ dispatched.kind = "Accept"
  /\ dispatched.err
  /\ Len(dispatched.invoked) = 2
  /\ dispatched.failed = {dispatched.invoked[1], dispatched.invoked[2]}
  /\ dispatched.failed \subseteq Events(chainHandlers, dispatched.chain)
  /\ ~chainHandlers[dispatched.chain][dispatched.invoked[1]].dieOnError
  /\ chainHandlers[dispatched.chain][dispatched.invoked[2]].dieOnError

\* The handlers registered on chain c that implement the interface of the
\* event, in registration order.
Matching(c, kind) ==
  SelectSeq(registered[c], LAMBDA id : kind \in HandlerFuncs[id])

\* C23: on every Accept, Reject or Issue event for a chain, all handlers
\* registered for that chain that implement the event's interface are
\* invoked, in the order in which they were registered.
DispatchOrder ==
  [][dispatched' # dispatched
       => dispatched'.invoked
            = Matching(dispatched'.chain, dispatched'.kind)]_vars

\* ------------------------------------ properties of the no-early-term poll
\* The sampled validators that have neither voted nor been dropped.
NotResponded == { v \in Voters : sampled[v] > 0 } \ (voted \cup dropped)

\* C26: a poll created by the no-early-term factory over a bag of sampled
\* validators is Finished exactly when every sampled validator has voted or
\* dropped; it is not Finished while any sampled validator has not
\* responded, whatever the votes received so far.
NoEarlyTermination == Finished(poll) <=> NotResponded = {}

\* All but one of three sampled validators have responded, one by a vote
\* for every vertex and one by a drop, and the poll is not finished.
NoEarlyTermWitness ==
  /\ BagLen(sampled) = MaxSample
  /\ Cardinality(NotResponded) = 1
  /\ voted # {}
  /\ dropped # {}
  /\ \A id \in VoteIDs : Result(poll)[id] # {}
  /\ ~Finished(poll)

\* C27: a second Vote by a voter who has already voted in the same poll is
\* dropped; it changes neither Finished() nor the Result() of the poll, so
\* voting twice has the same effect as voting once.
DuplicateVotesDropped ==
  \A vdr \in voted, votes \in SUBSET VoteIDs :
    /\ Finished(Vote(poll, vdr, votes)) = Finished(poll)
    /\ Result(Vote(poll, vdr, votes)) = Result(poll)

\* The last Vote was the second of a sampled voter, for a vertex it had not
\* voted for, in a poll that is still open: the result does not name the
\* vertex.
DuplicateVoteWitness ==
  /\ lastVote.again
  /\ sampled[lastVote.vdr] > 0
  /\ lastVote.vdr \notin dropped
  /\ lastVote.votes # {}
  /\ \A id \in lastVote.votes : Result(poll)[id] = {}
  /\ \E id \in VoteIDs : Result(poll)[id] # {}
  /\ ~Finished(poll)

\* ------------------------------------------- properties of the manager
\* The manager after the mutations that are under way, each as a whole.
Pending ==
  { validatorsStep(maskedVdrsStep(committed, call[p]).m, call[p], fault) :
      p \in { q \in Procs : pc[q] = "set" }, fault \in SetFaults }

\* C28: every Manager operation that reads or changes the validator set or
\* the masked set (GetValidators, Contains, String, MaskValidator,
\* RevealValidator, Mutate) is atomic with respect to a concurrent
\* MaskValidator or RevealValidator: a concurrent reader sees either all of
\* the mutation or none of it.
ConsistentSnapshot ==
  /\ \A p \in Procs : pc[p] \in {"read", "check"} => manager = committed
  /\ lock = NoProc => manager = committed
  /\ Mutate(manager, FALSE)
       \in { Mutate(m, FALSE) : m \in {committed} \cup Pending }

\* A goroutine is between the two writes of MaskValidator, the last read
\* is a Mutate made meanwhile, and a validator is masked already.
SnapshotWitness ==
  \E p \in Procs :
    /\ pc[p] = "set"
    /\ call[p].op = "MaskValidator"
    /\ manager.maskedVdrs # manager.validators.masked
    /\ manager.validators.masked # {}
    /\ seen.op = "Mutate"
    /\ seen.mid

\* The bytes of the validator allocation a node holds.
VdrBytesHeld(n) == MapGet(throttler.nodeToVdrBytesUsed, n)

\* The node is in the validator set the throttler reads, with a weight above 0.
IsWeightedVdr(n) ==
  /\ SetGetWeight(throttler.validators, n).ok
  /\ SetGetWeight(throttler.validators, n).weight # 0

\* floor(VdrAllocSize * weight(node) / total weight)
FloorShare(n) ==
  IF IsWeightedVdr(n)
  THEN (VdrAllocSize * throttler.validators[n])
         \div SetWeight(throttler.validators)
  ELSE 0

ShareGrowth ==
  \A n \in Nodes :
    MapGet(throttler'.nodeToVdrBytesUsed, n) > VdrBytesHeld(n) =>
      /\ IsWeightedVdr(n)
      /\ MapGet(throttler'.nodeToVdrBytesUsed, n)
           <= vdrAllocationSize(throttler, n)

\* With a fixed validator set no node holds more than its allocation size,
\* which is 0 for a node outside the set or of weight 0.
ShareBound ==
  ~drifted => \A n \in Nodes : VdrBytesHeld(n) <= vdrAllocationSize(throttler, n)

\* The allocation size is the floor of the exact quotient when the float64
\* arithmetic of Acquire is exact.
ShareFloor ==
  \A n \in Nodes :
    (/\ IsWeightedVdr(n)
     /\ VdrAllocSize * throttler.validators[n] < 2 ^ FloatBits
     /\ SetWeight(throttler.validators) < 2 ^ FloatBits)
      => vdrAllocationSize(throttler, n) = FloorShare(n)

StoreEdge(w) == IF w.buf.edge # <<>> THEN w.buf.edge ELSE w.db.edge

\* The vertex of handle h has been Accepted by a call that committed, and no
\* write is left staged.
AlreadyAccepted(h) ==
  /\ buf = EmptyRecords
  /\ db.status[HandleID(h)] = Accepted
  /\ lastSet[HandleID(h)] = Accepted

\* C32: Accept is idempotent. A second Accept on a vertex that is already
\* Accepted and that returns without error leaves the status, the in-memory
\* edge and the stored edge record as they were, also when a child of the
\* vertex has been Accepted in between.
AcceptIdempotent ==
  \A h \in Handles :
    AlreadyAccepted(h) =>
      \E w \in {Accept(World, h, FALSE)} :
        w.err = "nil" =>
          /\ StatusValue(w, h) = Accepted
          /\ StoreStatus(w, HandleID(h)) = Accepted
          /\ w.edge = edge
          /\ StoreEdge(w) = StoreEdge(World)

\* The in-memory status and the in-memory edge are in w what they are now.
SameInMemory(w, h) ==
  /\ StatusValue(w, h) = StatusValue(Status(World, h), h)
  /\ w.edge = edge

\* C33: no partial effect on a failed decision. When Accept or Reject returns
\* an error, the in-memory status of the vertex and the in-memory edge are the
\* same as before the call. The calls are those on a uniqueVertex that
\* newUniqueVertex or setVertex has returned.
NoPartialEffect ==
  \A h \in Handles, fail \in BOOLEAN :
    hv[h] # Nil =>
    /\ \E w \in {Accept(World, h, fail)} : w.err # "nil" => SameInMemory(w, h)
    /\ \E w \in {Reject(World, h, fail)} : w.err # "nil" => SameInMemory(w, h)

\* The handlers of chain c that implement snow.Acceptor, in the order ord of
\* the range over the map.
Acceptors(c, ord) ==
  SelectSeq(ord, LAMBDA id : "Accept" \in chainHandlers[c][id].handlerFunc)

\* The first place of seq that holds a handler of failing with dieOnError, or
\* the length of seq when there is none.
RECURSIVE FirstFatal(_, _, _, _)
FirstFatal(c, seq, failing, i) ==
  IF i >= Len(seq) THEN Len(seq)
  ELSE IF seq[i] \in failing /\ chainHandlers[c][seq[i]].dieOnError THEN i
       ELSE FirstFatal(c, seq, failing, i + 1)

\* C34: every Acceptor handler registered for the chain is invoked exactly
\* once per Accept event, unless a dieOnError handler fails: then Accept
\* returns at once and the handlers the range has not reached are skipped. A
\* failing handler without dieOnError does not stop the range.
HandlerCoverage ==
  \A c \in Chains :
    \A ord \in Perms(Events(chainHandlers, c)) :
      \A failing \in SUBSET Events(chainHandlers, c) :
        DispatchAccept(chainHandlers, c, ord, failing).invoked
          = SubSeq(Acceptors(c, ord), 1,
                   FirstFatal(c, Acceptors(c, ord), failing, 1))

\* The last Accept event invoked both Acceptor handlers of the chain and
\* returned nil although the first one invoked returned an error.
HandlerCoverageWitness ==
  /\ dispatched.kind = "Accept"
  /\ ~dispatched.err
  /\ Len(dispatched.invoked) = 2
  /\ dispatched.invoked[1] # dispatched.invoked[2]
  /\ dispatched.invoked[1] \in dispatched.failed

\* The handler functions and flags a call of RegisterChain may pass.
Handlers ==
  [handlerFunc : { HandlerFuncs[i] : i \in Identifiers },
   dieOnError : BOOLEAN]

\* C35: RegisterChain with an identifier already registered on the chain
\* returns an error and keeps the existing handler and its dieOnError flag;
\* DeregisterChain of an unknown chain or of an unknown identifier returns an
\* error and changes nothing; every chain present in the registry has at
\* least one handler.
RegistryErrors ==
  /\ \A c \in DOMAIN chainHandlers : DOMAIN chainHandlers[c] # {}
  /\ \A c \in Chains, id \in Identifiers :
       /\ id \in Events(chainHandlers, c) =>
            \A h \in Handlers :
              RegisterChain(chainHandlers, c, id, h.handlerFunc, h.dieOnError)
                = Returned(chainHandlers, TRUE)
       /\ id \notin Events(chainHandlers, c) =>
            DeregisterChain(chainHandlers, c, id) = Returned(chainHandlers, TRUE)

\* The last call was a RegisterChain that returned an error for an identifier
\* that is registered on the chain, next to another handler, while the other
\* chain is absent from the registry.
RegistryErrorsWitness ==
  /\ dispatched.kind = "RegisterChain"
  /\ dispatched.err
  /\ dispatched.invoked[1] \in Events(chainHandlers, dispatched.chain)
  /\ Cardinality(Events(chainHandlers, dispatched.chain)) = 2
  /\ DOMAIN chainHandlers = {dispatched.chain}

\* C36: after any sequence of MaskValidator and RevealValidator calls,
\* including calls in which the set returns an error, maskedVdrs holds exactly
\* the validators that are masked in the set; MaskValidator of a masked
\* validator and RevealValidator of one that is not masked do not reach the
\* set.
MaskBookkeeping ==
  /\ lock = NoProc => manager.maskedVdrs = manager.validators.masked
  /\ \A vdrID \in Nodes :
       /\ vdrID \in manager.maskedVdrs =>
            maskedVdrsStep(manager, [op |-> "MaskValidator", vdrID |-> vdrID])
              = [on |-> FALSE, m |-> manager]
       /\ vdrID \notin manager.maskedVdrs =>
            maskedVdrsStep(manager, [op |-> "RevealValidator", vdrID |-> vdrID])
              = [on |-> FALSE, m |-> manager]

\* ------------------------------------------- properties of the VMServer
\* C37: for every sequence of Initialize and Shutdown calls on one VMServer
\* the closed channel is closed at most once, and Shutdown before any
\* Initialize returns success without calling the VM.
ShutdownSafety ==
  /\ \A k \in 1 .. Len(vmServer.chans) : vmServer.chans[k] <= 1
  /\ (rpc.op = "Shutdown" /\ rpc.nilBefore) => ~rpc.err /\ ~rpc.vmCalled

\* ---------------------------------------- properties of the BlockClient
\* C38: when the BlockAccept or BlockReject RPC returns an error, Accept or
\* Reject returns that error and the Status() of the block is the same as
\* before the call.
DecisionOnRPCFailure ==
  decided.err => BlockStatus(blocks, decided.blk) = decided.before

\* --------------------------- properties of the tracked weight arithmetic
\* The beacon weight of the node of the last call.
TrackedWeight == GetWeight(tracked.nodeID).weight

\* C39: RemoveWeightForNode never underflows: the tracked weight becomes 0
\* when the beacon weight removed exceeds it, and the call returns nil.
\* AddWeightForNode returns an error exactly when the latch is unset and the
\* sum of the beacon weight and the tracked weight exceeds the greatest word,
\* and then leaves the tracked weight and the latch unchanged; with the latch
\* set it returns nil and changes nothing. A call for a node that is not a
\* beacon changes nothing.
TrackedArithmetic ==
  /\ tracker.weight \in 0 .. Word - 1
  /\ tracked.op = "RemoveWeightForNode" =>
       /\ ~tracked.err
       /\ tracker.weight <= tracked.before.weight
       /\ tracker.weight = IF TrackedWeight > tracked.before.weight THEN 0
                           ELSE tracked.before.weight - TrackedWeight
       /\ tracker.enoughConnectedWeight = tracked.before.enoughConnectedWeight
  /\ tracked.op = "AddWeightForNode" =>
       /\ tracked.err <=>
            /\ ~tracked.before.enoughConnectedWeight
            /\ TrackedWeight + tracked.before.weight > Word - 1
       /\ tracked.err => tracker = tracked.before
       /\ tracker.weight >= tracked.before.weight
  /\ (tracked.op # "none" /\ ~GetWeight(tracked.nodeID).ok) =>
       tracker = tracked.before /\ ~tracked.err

\* C39 as stated, for AddWeightForNode: every call for a beacon whose sum
\* with the tracked weight exceeds the greatest word returns an error.
TrackedOverflowAlways ==
  ( /\ tracked.op = "AddWeightForNode"
    /\ GetWeight(tracked.nodeID).ok
    /\ TrackedWeight + tracked.before.weight > Word - 1 ) => tracked.err

\* The last call was an AddWeightForNode of a beacon of positive weight that
\* returned the overflow error and left the tracked weight where it was.
TrackedArithmeticWitness ==
  /\ tracked.op = "AddWeightForNode"
  /\ tracked.err
  /\ TrackedWeight > 0
  /\ tracker.weight + TrackedWeight > Word - 1

====
